---- MODULE Spec2Model ----
(***************************************************************************)
(* Model of src/main.ts, the pre-ready bootstrap of the desktop host       *)
(* process: argument parsing, argv.json switches, sandbox, crash reporter, *)
(* locale resolution and the ready handler.                                *)
(*                                                                         *)
(* Text is modelled as a sequence of atoms.  Where the code works on       *)
(* characters (locales, the crash reporter id) every atom is one           *)
(* character; elsewhere an atom is a whole word.  The empty string is <<>>.*)
(***************************************************************************)
EXTENDS Integers, Sequences, FiniteSets, TLC

(***************************************************************************)
(* Bounds of the model.                                                    *)
(***************************************************************************)
\* longest argv.json that is enumerated, in entries
MaxKeys == 2
\* longest locale that is enumerated, in hyphen-separated subtags
MaxSubtags == 2
\* the longest sequence of open-file and open-url events the host emits
MaxEvents == 2
\* the most calls of getOpenUrls the application makes
MaxReads == 2

(***************************************************************************)
(* JavaScript values: undefined, booleans, strings and arrays.             *)
(***************************************************************************)
Undefined == [t |-> "undefined", b |-> FALSE, s |-> <<>>, a |-> <<>>]
Bool(b) == [t |-> "boolean", b |-> b, s |-> <<>>, a |-> <<>>]
Str(s) == [t |-> "string", b |-> FALSE, s |-> s, a |-> <<>>]
Arr(a) == [t |-> "array", b |-> FALSE, s |-> <<>>, a |-> a]

\* JavaScript truthiness of a value (an array is an object, hence truthy)
Truthy(v) ==
    CASE v.t = "undefined" -> FALSE
      [] v.t = "boolean" -> v.b
      [] v.t = "string" -> Len(v.s) > 0
      [] OTHER -> TRUE

(***************************************************************************)
(* String operations used by the code.                                     *)
(***************************************************************************)
UpperChars ==
    <<"A", "B", "C", "D", "E", "F", "G", "H", "I", "J", "K", "L", "M",
      "N", "O", "P", "Q", "R", "S", "T", "U", "V", "W", "X", "Y", "Z">>
LowerChars ==
    <<"a", "b", "c", "d", "e", "f", "g", "h", "i", "j", "k", "l", "m",
      "n", "o", "p", "q", "r", "s", "t", "u", "v", "w", "x", "y", "z">>

ToLowerChar(c) ==
    IF \E i \in 1..Len(UpperChars) : UpperChars[i] = c
    THEN LowerChars[CHOOSE i \in 1..Len(UpperChars) : UpperChars[i] = c]
    ELSE c

\* String.prototype.toLowerCase
toLowerCase(s) == [i \in 1..Len(s) |-> ToLowerChar(s[i])]

\* String.prototype.startsWith
startsWith(s, p) == Len(s) >= Len(p) /\ SubSeq(s, 1, Len(p)) = p

\* Array.prototype.indexOf, 1-based; 0 when the element is absent
indexOf(seq, x) ==
    IF \E i \in 1..Len(seq) : seq[i] = x
    THEN CHOOSE i \in 1..Len(seq) : seq[i] = x /\ \A j \in 1..(i - 1) : seq[j] # x
    ELSE 0

\* String.prototype.split with a one-character separator
RECURSIVE split(_, _)
split(s, sep) ==
    LET i == indexOf(s, sep)
    IN IF i = 0 THEN <<s>>
       ELSE <<SubSeq(s, 1, i - 1)>> \o split(SubSeq(s, i + 1, Len(s)), sep)

\* Array.prototype.join
RECURSIVE join(_, _)
join(parts, sep) ==
    IF Len(parts) = 0 THEN <<>>
    ELSE IF Len(parts) = 1 THEN parts[1]
    ELSE parts[1] \o <<sep>> \o join(Tail(parts), sep)

\* String.prototype.concat / template literals
RECURSIVE concat(_)
concat(strs) == IF Len(strs) = 0 THEN <<>> ELSE strs[1] \o concat(Tail(strs))

(***************************************************************************)
(* Locale texts, one atom per character.                                   *)
(***************************************************************************)
L_zh == <<"z", "h">>
L_en == <<"e", "n">>
L_zh_cn == <<"z", "h", "-", "c", "n">>
L_zh_tw == <<"z", "h", "-", "t", "w">>
L_qps_ploc == <<"q", "p", "s", "-", "p", "l", "o", "c">>
SimplifiedRegions ==
    { <<"h", "a", "n", "s">>, <<"c", "n">>, <<"s", "g">>, <<"m", "y">> }

\* faulty variant: the region is read from the first part of the split
processZhLocaleFirstPart(appLocale) ==
    IF startsWith(appLocale, L_zh)
    THEN IF split(appLocale, "-")[1] \in SimplifiedRegions
         THEN L_zh_cn ELSE L_zh_tw
    ELSE appLocale

\* processZhLocale (the callers lower-case the locale first)
processZhLocale(appLocale) ==
    IF startsWith(appLocale, L_zh)
    THEN LET parts == split(appLocale, "-")
         IN IF Len(parts) >= 2 /\ parts[2] \in SimplifiedRegions
            THEN L_zh_cn
            ELSE L_zh_tw
    ELSE appLocale

(***************************************************************************)
(* argv.json: the parsed config is the sequence of its entries in file     *)
(* order (Object.keys order), each a key and a JavaScript value.           *)
(***************************************************************************)
\* argvConfig[key]
Get(config, key) ==
    IF \E i \in 1..Len(config) : config[i].key = key
    THEN config[CHOOSE i \in 1..Len(config) : config[i].key = key].value
    ELSE Undefined

(***************************************************************************)
(* app.commandLine: the switches appended so far, oldest first.  A later   *)
(* switch of the same name replaces the value of an earlier one.           *)
(***************************************************************************)
\* app.commandLine.appendSwitch(name, value); a bare switch has value ''
appendSwitch(cl, name, value) == Append(cl, [name |-> name, value |-> value])

\* app.commandLine.hasSwitch(name)
hasSwitch(cl, name) == \E i \in 1..Len(cl) : cl[i].name = name

\* app.commandLine.getSwitchValue(name); '' when the switch is absent
getSwitchValue(cl, name) ==
    IF hasSwitch(cl, name)
    THEN cl[CHOOSE i \in 1..Len(cl) :
                /\ cl[i].name = name
                /\ \A j \in (i + 1)..Len(cl) : cl[j].name # name].value
    ELSE <<>>

(***************************************************************************)
(* configureCommandlineSwitchesSync                                        *)
(***************************************************************************)
SUPPORTED_ELECTRON_SWITCHES(plat) ==
    { "disable-hardware-acceleration", "force-color-profile",
      "disable-lcd-text", "proxy-bypass-list", "remote-debugging-port" }
    \cup (IF plat = "linux"
          THEN { "force-renderer-accessibility", "password-store" }
          ELSE {})

SUPPORTED_MAIN_PROCESS_SWITCHES ==
    { "enable-proposed-api", "log-level", "use-inmemory-secretstorage",
      "enable-rdp-display-tracking" }

\* the legacy password-store names and the name they migrate to
LegacyPasswordStores == { <<"gnome">>, <<"gnome-keyring">> }
GnomeLibsecret == <<"gnome-libsecret">>

\* the state the key loop works on: the host runtime's command line, the
\* dedicated hardware-acceleration switch, process.argv and the console
SwitchState(cl, hw, av, con) ==
    [commandLine |-> cl, hwAccelDisabled |-> hw, argv |-> av, console |-> con]

\* faulty variant: the legacy password-store names are not migrated
ElectronStringSwitchNoMigration(st, key, value) ==
    [st EXCEPT !.commandLine = appendSwitch(@, key, value.s)]

\* lines 462-475: a non-empty string value of a runtime switch
ElectronStringSwitch(st, key, value) ==
    IF key = "password-store"
    THEN LET migratedArgvValue ==
                 IF value.s \in LegacyPasswordStores
                 THEN GnomeLibsecret ELSE value.s
         IN [st EXCEPT !.commandLine = appendSwitch(@, key, migratedArgvValue)]
    ELSE [st EXCEPT !.commandLine = appendSwitch(@, key, value.s)]

\* faulty variant: every true-valued key becomes a generic switch
ElectronBooleanSwitchGeneric(st, key) ==
    [st EXCEPT !.commandLine = appendSwitch(@, key, <<>>)]

\* lines 450-460: a runtime switch whose value is true or 'true'
ElectronBooleanSwitch(st, key) ==
    IF key = "disable-hardware-acceleration"
    THEN [st EXCEPT !.hwAccelDisabled = @ + 1]
    ELSE [st EXCEPT !.commandLine = appendSwitch(@, key, <<>>)]

\* faulty variant: the empty string is a switch value like any other
ElectronSwitchAnyString(st, key, value) ==
    IF value = Bool(TRUE) \/ value = Str(<<"true">>)
    THEN ElectronBooleanSwitch(st, key)
    ELSE IF value.t = "string"
    THEN ElectronStringSwitch(st, key, value)
    ELSE st

\* lines 450-476: a key of SUPPORTED_ELECTRON_SWITCHES
ElectronSwitch(st, key, value) ==
    IF value = Bool(TRUE) \/ value = Str(<<"true">>)
    THEN ElectronBooleanSwitch(st, key)
    ELSE IF value.t = "string" /\ Len(value.s) > 0
    THEN ElectronStringSwitch(st, key, value)
    ELSE st

\* process.argv.push(...tokens)
push(av, tokens) == av \o tokens

\* faulty variant: every element of the array is pushed
RECURSIVE PushProposedApiUnchecked(_, _)
PushProposedApiUnchecked(av, ids) ==
    IF Len(ids) = 0 THEN av
    ELSE PushProposedApiUnchecked(
             push(av, <<Str(<<"--", "enable-proposed-api">>), ids[1]>>), Tail(ids))

\* line 487: argvValue.forEach(id => id && typeof id === 'string' && push)
RECURSIVE PushProposedApi(_, _)
PushProposedApi(av, ids) ==
    IF Len(ids) = 0 THEN av
    ELSE LET id == ids[1]
             next == IF Truthy(id) /\ id.t = "string"
                     THEN push(av, <<Str(<<"--", "enable-proposed-api">>), id>>)
                     ELSE av
         IN PushProposedApi(next, Tail(ids))

\* lines 498-500: for (const value of argvValue) push('--log', value)
RECURSIVE PushLogLevels(_, _)
PushLogLevels(av, values) ==
    IF Len(values) = 0 THEN av
    ELSE PushLogLevels(push(av, <<Str(<<"--", "log">>), values[1]>>), Tail(values))

\* lines 481-518: a key of SUPPORTED_MAIN_PROCESS_SWITCHES
MainProcessSwitch(st, key, value) ==
    CASE key = "enable-proposed-api" ->
            IF value.t = "array"
            THEN [st EXCEPT !.argv = PushProposedApi(@, value.a)]
            ELSE [st EXCEPT !.console =
                      Append(@, "error: unexpected value for enable-proposed-api")]
      [] key = "log-level" ->
            IF value.t = "string"
            THEN [st EXCEPT !.argv = push(@, <<Str(<<"--", "log">>), value>>)]
            ELSE IF value.t = "array"
            THEN [st EXCEPT !.argv = PushLogLevels(@, value.a)]
            ELSE st
      [] key = "use-inmemory-secretstorage" ->
            IF Truthy(value)
            THEN [st EXCEPT !.argv =
                      push(@, <<Str(<<"--", "use-inmemory-secretstorage">>)>>)]
            ELSE st
      [] key = "enable-rdp-display-tracking" ->
            IF Truthy(value)
            THEN [st EXCEPT !.argv =
                      push(@, <<Str(<<"--", "enable-rdp-display-tracking">>)>>)]
            ELSE st
      [] OTHER -> st

\* faulty variant: keys outside the application list are runtime switches
ProcessArgvKeyNoAllowList(plat, st, key, value) ==
    IF key \in SUPPORTED_MAIN_PROCESS_SWITCHES
    THEN MainProcessSwitch(st, key, value)
    ELSE ElectronSwitch(st, key, value)

\* lines 444-519: the body of the forEach over Object.keys(argvConfig)
ProcessArgvKey(plat, st, key, value) ==
    IF key \in SUPPORTED_ELECTRON_SWITCHES(plat)
    THEN ElectronSwitch(st, key, value)
    ELSE IF key \in SUPPORTED_MAIN_PROCESS_SWITCHES
    THEN MainProcessSwitch(st, key, value)
    ELSE st

RECURSIVE ProcessArgvKeys(_, _, _)
ProcessArgvKeys(plat, st, config) ==
    IF Len(config) = 0 THEN st
    ELSE ProcessArgvKeys(plat,
                         ProcessArgvKey(plat, st, config[1].key, config[1].value),
                         Tail(config))

\* the features the maintainers always enable or disable (lines 530-546)
FeaturesToEnable ==
    << "NetAdapterMaxBufSizeFeature:NetAdapterMaxBufSize/8192",
       "DocumentPolicyIncludeJSCallStacksInCrashReports",
       "EarlyEstablishGpuChannel", "EstablishGpuChannelAsync" >>
FeaturesToDisable ==
    << "CalculateNativeWinOcclusion", "FontationsLinuxSystemFonts" >>
BlinkFeaturesToDisable ==
    << "FontMatchingCTMigration", "StandardizedBrowserZoom" >>

\* faulty variant: the value the switch already had is overwritten
FeatureListOverwrite(features, existing) ==
    join([i \in 1..Len(features) |-> <<features[i]>>], ",")

\* `${a},${b},...,${existing}`: every feature is followed by a comma and the
\* value the switch already had comes last
FeatureList(features, existing) ==
    concat([i \in 1..Len(features) |-> <<features[i], ",">>]) \o existing

\* lines 530-546
AppendFeatureSwitches(cl) ==
    LET cl1 == appendSwitch(cl, "enable-features",
                   FeatureList(FeaturesToEnable,
                               getSwitchValue(cl, "enable-features")))
        cl2 == appendSwitch(cl1, "disable-features",
                   FeatureList(FeaturesToDisable,
                               getSwitchValue(cl1, "disable-features")))
    IN appendSwitch(cl2, "disable-blink-features",
                    FeatureList(BlinkFeaturesToDisable,
                                getSwitchValue(cl2, "disable-blink-features")))

\* getJSFlags: the flags joined by a space, or null (modelled as '')
getJSFlags(plat, cliArgs) ==
    LET given == IF Truthy(cliArgs["js-flags"])
                 THEN <<cliArgs["js-flags"].s>> ELSE <<>>
        jsFlags == IF plat = "linux"
                   THEN Append(given, <<"--nodecommit_pooled_pages">>)
                   ELSE given
    IN join(jsFlags, " ")

\* lines 553-565
AppendEngineSwitches(plat, cliArgs, cl) ==
    LET jsFlags == getJSFlags(plat, cliArgs)
        cl1 == IF Len(jsFlags) > 0
               THEN appendSwitch(cl, "js-flags", jsFlags) ELSE cl
    IN appendSwitch(cl1, "xdg-portal-required-version", <<"4">>)

\* configureCommandlineSwitchesSync after readArgvConfigSync: the key loop,
\* then the feature switches, then the engine switches
ResolveSwitches(plat, cliArgs, config, st) ==
    LET looped == ProcessArgvKeys(plat, st, config)
    IN [looped EXCEPT !.commandLine =
            AppendEngineSwitches(plat, cliArgs, AppendFeatureSwitches(@))]

(***************************************************************************)
(* Paths (node:path).  A path is a text whose atoms are segment names, the *)
(* separator "/" and, on Windows, a leading drive atom such as "C:".       *)
(***************************************************************************)
Drives == { "C:" }

HasDrive(plat, p) == plat = "win32" /\ Len(p) > 0 /\ p[1] \in Drives

\* the part of the path after the drive
AfterDrive(plat, p) == IF HasDrive(plat, p) THEN Tail(p) ELSE p

\* faulty variant: every path passes for absolute
isAbsoluteAlways(plat, p) == TRUE

\* path.isAbsolute
isAbsolute(plat, p) ==
    LET rest == AfterDrive(plat, p)
    IN Len(rest) > 0 /\ rest[1] = "/"

\* the segments of a path with "", "." and resolvable ".." removed
RECURSIVE NormalizeSegments(_, _, _)
NormalizeSegments(segs, out, rooted) ==
    IF Len(segs) = 0 THEN out
    ELSE LET seg == segs[1]
             rest == Tail(segs)
         IN IF seg = <<>> \/ seg = <<".">>
            THEN NormalizeSegments(rest, out, rooted)
            ELSE IF seg = <<"..">>
            THEN IF Len(out) > 0 /\ out[Len(out)] # <<"..">>
                 THEN NormalizeSegments(rest, SubSeq(out, 1, Len(out) - 1), rooted)
                 ELSE IF rooted
                 THEN NormalizeSegments(rest, out, rooted)
                 ELSE NormalizeSegments(rest, Append(out, seg), rooted)
            ELSE NormalizeSegments(rest, Append(out, seg), rooted)

\* path.normalize
normalize(plat, p) ==
    LET drive == IF HasDrive(plat, p) THEN <<p[1]>> ELSE <<>>
        rest == AfterDrive(plat, p)
        rooted == Len(rest) > 0 /\ rest[1] = "/"
        trailing == Len(rest) > 0 /\ rest[Len(rest)] = "/"
        body == join(NormalizeSegments(split(rest, "/"), <<>>, rooted), "/")
        tail == IF Len(body) > 0 /\ trailing THEN body \o <<"/">> ELSE body
    IN IF rooted THEN drive \o <<"/">> \o tail
       ELSE IF Len(tail) = 0 THEN drive \o <<".">>
       ELSE drive \o tail

(***************************************************************************)
(* The crash reporter id and the submission endpoint (lines 747-781).      *)
(***************************************************************************)
HexChars ==
    { "0", "1", "2", "3", "4", "5", "6", "7", "8", "9",
      "a", "b", "c", "d", "e", "f", "A", "B", "C", "D", "E", "F" }

\* String(value), the coercion RegExp.prototype.test applies to its argument
RECURSIVE StringOf(_)
StringOf(v) ==
    CASE v.t = "undefined" -> <<"u", "n", "d", "e", "f", "i", "n", "e", "d">>
      [] v.t = "boolean" ->
            IF v.b THEN <<"t", "r", "u", "e">> ELSE <<"f", "a", "l", "s", "e">>
      [] v.t = "string" -> v.s
      [] OTHER -> join([i \in 1..Len(v.a) |-> StringOf(v.a[i])], ",")

\* /^[0-9a-f]{8}-[0-9a-f]{4}-[0-9a-f]{4}-[0-9a-f]{4}-[0-9a-f]{12}$/i
UuidDashes == { 9, 14, 19, 24 }
uuidPatternTest(v) ==
    LET str == StringOf(v)
    IN /\ Len(str) = 36
       /\ \A i \in 1..36 :
            IF i \in UuidDashes THEN str[i] = "-" ELSE str[i] \in HexChars

\* product.appCenter, the table of submission endpoints
appCenter ==
    [ k \in { "win32-x64", "win32-arm64", "linux-x64", "darwin",
              "darwin-universal", "darwin-arm64" } |->
        <<"https://appcenter/", k, "?v=1">> ]

\* lines 753-778: the endpoint of this platform and architecture, '' if none
SelectSubmitURL(plat, architecture, universal) ==
    CASE plat = "win32" ->
            (CASE architecture = "x64" -> appCenter["win32-x64"]
               [] architecture = "arm64" -> appCenter["win32-arm64"]
               [] OTHER -> <<>>)
      [] plat = "darwin" ->
            IF universal THEN appCenter["darwin-universal"]
            ELSE (CASE architecture = "x64" -> appCenter["darwin"]
                    [] architecture = "arm64" -> appCenter["darwin-arm64"]
                    [] OTHER -> <<>>)
      [] plat = "linux" -> appCenter["linux-x64"]
      [] OTHER -> <<>>

\* line 781: submitURL.concat('&uid=', id, '&iid=', id, '&sid=', id)
WithCorrelationIds(submitURL, id) ==
    concat(<<submitURL, <<"&uid=">>, StringOf(id), <<"&iid=">>, StringOf(id),
             <<"&sid=">>, StringOf(id)>>)

\* Array.prototype.splice(index, 0, ...items), index 1-based
splice(seq, index, items) ==
    SubSeq(seq, 1, index - 1) \o items \o SubSeq(seq, index, Len(seq))

EndOfArgsMarker == Str(<<"--">>)
CrashReporterIdFlag == Str(<<"--", "crash-reporter-id">>)

\* faulty variant: the pair is always appended at the end
PropagateCrashReporterIdAtEnd(av, id) == push(av, <<CrashReporterIdFlag, id>>)

\* lines 785-797: hand the id to child processes through process.argv
PropagateCrashReporterId(av, id) ==
    LET endOfArgsMarkerIndex == indexOf(av, EndOfArgsMarker)
    IN IF endOfArgsMarkerIndex = 0
       THEN push(av, <<CrashReporterIdFlag, id>>)
       ELSE splice(av, endOfArgsMarkerIndex, <<CrashReporterIdFlag, id>>)

\* line 814
uploadToServer(isDev, submitURL, crashReporterDirectory) ==
    ~isDev /\ Len(submitURL) > 0 /\ ~Truthy(crashReporterDirectory)

(***************************************************************************)
(* parseCLIArgs: minimist(process.argv, options).  An option token is the  *)
(* text "--" key, "--" key "=" value or "--" "no-"key; the token "--" ends *)
(* the options.                                                            *)
(***************************************************************************)
StringKeys == { "user-data-dir", "locale", "js-flags", "crash-reporter-directory" }
BooleanKeys == { "disable-chromium-sandbox" }
ArgKeys ==
    StringKeys \cup BooleanKeys \cup { "sandbox", "disable-crash-reporter", "trace" }

\* the keys negated by a "--no-<key>" token
NegatedKeys == [ k \in { "no-sandbox" } |-> "sandbox" ]

IsOption(token) ==
    token.t = "string" /\ Len(token.s) >= 2 /\ token.s[1] = "--"
IsNegation(token) == IsOption(token) /\ token.s[2] \in DOMAIN NegatedKeys
HasValue(token) == IsOption(token) /\ Len(token.s) >= 3 /\ token.s[3] = "="
OptionValue(token) == SubSeq(token.s, 4, Len(token.s))

\* the options record before any token is read: declared booleans are
\* false, everything else is absent
NoArgs == [ k \in ArgKeys |-> IF k \in BooleanKeys THEN Bool(FALSE) ELSE Undefined ]

\* the default and the alias of parseCLIArgs: sandbox is true unless given
WithDefaults(parsed) ==
    IF parsed["sandbox"] = Undefined
    THEN [parsed EXCEPT !["sandbox"] = Bool(TRUE)]
    ELSE parsed

Set(parsed, key, value) ==
    IF key \in ArgKeys THEN [parsed EXCEPT ![key] = value] ELSE parsed

RECURSIVE ParseTokens(_, _)
ParseTokens(tokens, parsed) ==
    IF Len(tokens) = 0 \/ tokens[1] = Str(<<"--">>) THEN parsed
    ELSE LET token == tokens[1]
             rest == Tail(tokens)
         IN IF ~IsOption(token) THEN ParseTokens(rest, parsed)
            ELSE IF IsNegation(token)
            THEN ParseTokens(rest, Set(parsed, NegatedKeys[token.s[2]], Bool(FALSE)))
            ELSE IF HasValue(token)
            THEN ParseTokens(rest,
                     Set(parsed, token.s[2],
                         IF token.s[2] \in BooleanKeys
                         THEN Bool(OptionValue(token) # <<"false">>)
                         ELSE Str(OptionValue(token))))
            ELSE IF /\ token.s[2] \notin BooleanKeys
                    /\ Len(rest) > 0
                    /\ rest[1].t = "string"
                    /\ ~(Len(rest[1].s) > 0 /\ rest[1].s[1] = "--")
            THEN ParseTokens(Tail(rest), Set(parsed, token.s[2], rest[1]))
            ELSE ParseTokens(rest,
                     Set(parsed, token.s[2],
                         IF token.s[2] \in StringKeys
                         THEN Str(<<>>) ELSE Bool(TRUE)))

parseCLIArgs(av) == WithDefaults(ParseTokens(av, NoArgs))

\* The host runtime reads its own switches from the same command line
\* before the script runs: every option token ahead of "--".
RECURSIVE InitialSwitches(_)
InitialSwitches(tokens) ==
    IF Len(tokens) = 0 \/ tokens[1] = Str(<<"--">>) THEN <<>>
    ELSE IF IsOption(tokens[1])
    THEN <<[name |-> tokens[1].s[2],
            value |-> IF HasValue(tokens[1]) THEN OptionValue(tokens[1]) ELSE <<>>]>>
         \o InitialSwitches(Tail(tokens))
    ELSE InitialSwitches(Tail(tokens))

(***************************************************************************)
(* readArgvConfigSync and createDefaultArgvConfigSync.  The file is        *)
(* missing, unreadable or present; its text is the default text, a JSON    *)
(* object with the given entries, or text that does not parse.             *)
(***************************************************************************)
MissingFile == [state |-> "missing", kind |-> "none", entries |-> <<>>]
UnreadableFile == [state |-> "unreadable", kind |-> "none", entries |-> <<>>]
GarbageFile == [state |-> "present", kind |-> "garbage", entries |-> <<>>]
JsonFile(entries) == [state |-> "present", kind |-> "json", entries |-> entries]

\* A line of the file that is a comment: the text after the two slashes.
Comment(text) == [key |-> "//", value |-> Str(<<text>>)]

\* parse (JSON with comments): the members of the object, comments dropped
parse(entries) == SelectSeq(entries, LAMBDA e : e.key # "//")

\* faulty variant: the example setting is written uncommented
defaultArgvConfigContentEnabled ==
    << Comment("This configuration file allows you to pass permanent command line arguments to VS Code."),
       Comment("PLEASE DO NOT CHANGE WITHOUT UNDERSTANDING THE IMPACT"),
       Comment("Use software rendering instead of hardware accelerated rendering."),
       [key |-> "disable-hardware-acceleration", value |-> Bool(TRUE)] >>

\* defaultArgvConfigContent: explanatory comments around an empty object,
\* the example setting "disable-hardware-acceleration": true commented out
defaultArgvConfigContent ==
    << Comment("This configuration file allows you to pass permanent command line arguments to VS Code."),
       Comment("PLEASE DO NOT CHANGE WITHOUT UNDERSTANDING THE IMPACT"),
       Comment("Use software rendering instead of hardware accelerated rendering."),
       Comment("\"disable-hardware-acceleration\": true") >>

\* the file createDefaultArgvConfigSync writes: comments and an empty object
DefaultArgvConfigFile ==
    [state |-> "present", kind |-> "default", entries |-> defaultArgvConfigContent]

\* createDefaultArgvConfigSync: the write succeeds or its error is swallowed
createDefaultArgvConfigSync(file, canWrite) ==
    IF canWrite
    THEN [file |-> DefaultArgvConfigFile, console |-> <<>>]
    ELSE [file |-> file,
          console |-> <<"error: unable to create argv.json">>]

\* faulty variant: every failure materializes the default file
readArgvConfigSyncCreatingAlways(file, canWrite) ==
    IF file.state = "missing" \/ file.state = "unreadable"
          \/ file.kind = "garbage"
    THEN LET made == createDefaultArgvConfigSync(file, canWrite)
         IN [config |-> <<>>, file |-> made.file, console |-> made.console]
    ELSE [config |-> parse(file.entries), file |-> file, console |-> <<>>]

\* readArgvConfigSync: the config, the file afterwards and what was logged
readArgvConfigSync(file, canWrite) ==
    CASE file.state = "missing" ->
            LET made == createDefaultArgvConfigSync(file, canWrite)
            IN [config |-> <<>>, file |-> made.file, console |-> made.console]
      [] file.state = "unreadable" \/ file.kind = "garbage" ->
            [config |-> <<>>, file |-> file,
             console |-> <<"warn: unable to read argv.json">>]
      [] OTHER ->
            [config |-> parse(file.entries), file |-> file, console |-> <<>>]

(***************************************************************************)
(* getUserDefinedLocale and the language-pack resolver.                    *)
(***************************************************************************)
\* faulty variant: argv.json is consulted before the command line
getUserDefinedLocaleConfigFirst(cliArgs, config) ==
    IF Get(config, "locale").t = "string"
    THEN Str(toLowerCase(Get(config, "locale").s))
    ELSE IF Truthy(cliArgs["locale"])
    THEN Str(toLowerCase(cliArgs["locale"].s))
    ELSE Undefined

\* faulty variant: the locale is returned as the user wrote it
getUserDefinedLocaleVerbatim(cliArgs, config) ==
    LET locale == cliArgs["locale"]
    IN IF Truthy(locale)
       THEN Str(locale.s)
       ELSE IF Get(config, "locale").t = "string"
       THEN Str(Get(config, "locale").s)
       ELSE Undefined

\* getUserDefinedLocale
getUserDefinedLocale(cliArgs, config) ==
    LET locale == cliArgs["locale"]
    IN IF Truthy(locale)
       THEN Str(toLowerCase(locale.s))
       ELSE IF Get(config, "locale").t = "string"
       THEN Str(toLowerCase(Get(config, "locale").s))
       ELSE Undefined

\* resolveNLSConfiguration of vs/base/node/nls.js: the configuration carries
\* the two locales it was called with and the language it resolved, which
\* is the user locale when a language pack serves it and English otherwise
resolveNLSConfiguration(user, os, packFound) ==
    [userLocale |-> user, osLocale |-> os,
     resolvedLanguage |-> IF packFound THEN user ELSE L_en]

\* faulty variant: the English configuration names English as the OS locale
DefaultNlsConfigurationEnglishOs(os) ==
    [userLocale |-> L_en, osLocale |-> L_en, resolvedLanguage |-> L_en]

\* lines 1073-1082: the hard-coded English configuration
DefaultNlsConfiguration(os) ==
    [userLocale |-> L_en, osLocale |-> os, resolvedLanguage |-> L_en]

NoNlsConfiguration == [userLocale |-> <<>>, osLocale |-> <<>>, resolvedLanguage |-> <<>>]

(***************************************************************************)
(* State.                                                                  *)
(***************************************************************************)
VARIABLES
    \* the environment of the run
    platform,       \* process.platform
    arch,           \* process.arch
    isDev,          \* process.env['VSCODE_DEV'] is set
    product,        \* what product.json defines: appCenter, universal, commit
    hostLanguage,   \* app.getPreferredSystemLanguages()?.[0]
    hostLocale,     \* app.getLocale() once the runtime is ready
    argvFile,       \* the argv.json file
    \* the program
    pc,             \* position of the bootstrap
    argv,           \* process.argv
    args,           \* const args = parseCLIArgs()
    argvConfig,     \* const argvConfig = configureCommandlineSwitchesSync(args)
    commandLine,    \* app.commandLine
    hwAccelDisabled,  \* calls of app.disableHardwareAcceleration()
    sandboxEnabled,   \* app.enableSandbox() was called
    console,        \* console.error / console.warn lines
    codeCachePath,  \* const codeCachePath = getCodeCachePath()
    createdDirs,    \* directories created by fs.mkdirSync / fs.promises.mkdir
    crashDumps,     \* app.setPath('crashDumps', ...), '' while unset
    crashReporter,  \* crashReporter.start calls and the options of the last
    exitCode,       \* app.exit code, -1 while running
    osLocale,       \* const osLocale
    userLocale,     \* const userLocale = getUserDefinedLocale(argvConfig)
    nlsConfigurationPromise,  \* the early resolution, state "none" if absent
    mkdirTask,      \* mkdirpIgnoreError(codeCachePath) inside onReady
    nlsTask,        \* resolveNlsConfiguration() inside onReady
    nlsConfig,      \* the configuration resolveNlsConfiguration returned
    processEnv,     \* VSCODE_NLS_CONFIG / VSCODE_CODE_CACHE_PATH published
    userData,       \* app.setPath('userData', ...), '' while unset
    \* the ready handler
    traceRecording, \* contentTracing.startRecording: none/pending/started/failed
    onReadyCalls,   \* calls of onReady()
    getLocaleCalls, \* calls of app.getLocale()
    mainImports,    \* import('./vs/code/electron-main/main.js') evaluations
    \* registerListeners and the events of the host runtime
    willFinishLaunchingListeners,  \* listeners registered on 'will-finish-launching'
    openFileListeners,    \* listeners registered on 'open-file'
    openUrlListeners,     \* registrations of onOpenUrl on 'open-url'
    macOpenFiles,   \* globalThis.macOpenFiles
    openUrls,       \* the array onOpenUrl pushes to
    openUrlsReads,  \* what each call of globalThis.getOpenUrls() returned
    hostQueue,      \* the events the host runtime is still going to emit
    hostLog         \* the events emitted and the accessor calls, in order

vars ==
    << platform, arch, isDev, product, hostLanguage, hostLocale, argvFile,
       pc, argv, args, argvConfig, commandLine, hwAccelDisabled,
       sandboxEnabled, console, codeCachePath, createdDirs, crashDumps,
       crashReporter, exitCode, osLocale, userLocale,
       nlsConfigurationPromise, mkdirTask, nlsTask, nlsConfig, processEnv,
       userData, traceRecording, onReadyCalls, getLocaleCalls, mainImports,
       willFinishLaunchingListeners, openFileListeners, openUrlListeners, macOpenFiles,
       openUrls, openUrlsReads, hostQueue, hostLog >>

readyVars == << traceRecording, onReadyCalls, getLocaleCalls, mainImports >>
listenerVars ==
    << willFinishLaunchingListeners, openFileListeners, openUrlListeners, macOpenFiles,
       openUrls, openUrlsReads, hostQueue, hostLog >>

envVars == << platform, arch, isDev, product, hostLanguage, hostLocale >>

NoCrashReporter ==
    [started |-> 0, submitURL |-> <<>>, uploadToServer |-> FALSE,
     devSuffix |-> FALSE, compress |-> FALSE]
NoPromise == [state |-> "none", userLocale |-> <<>>, osLocale |-> <<>>,
              value |-> NoNlsConfiguration]
IdleTask == [state |-> "idle", userLocale |-> <<>>, value |-> NoNlsConfiguration]
NoEnv == [published |-> FALSE, nlsConfig |-> NoNlsConfiguration,
          codeCachePath |-> <<>>]

\* the state when the script starts, for an environment drawn from the sets;
\* Queues are the event sequences the host runtime may go on to emit
InitWithEvents(Platforms, Archs, Devs, Products, Languages, Locales, Files, Argvs, Queues) ==
    /\ platform \in Platforms
    /\ arch \in Archs
    /\ isDev \in Devs
    /\ product \in Products
    /\ hostLanguage \in Languages
    /\ hostLocale \in Locales
    /\ argvFile \in Files
    /\ argv \in Argvs
    /\ pc = "ParsingArgs"
    /\ args = NoArgs
    /\ argvConfig = <<>>
    /\ commandLine = InitialSwitches(argv)
    /\ hwAccelDisabled = 0
    /\ sandboxEnabled = FALSE
    /\ console = <<>>
    /\ codeCachePath = Undefined
    /\ createdDirs = {}
    /\ crashDumps = <<>>
    /\ crashReporter = NoCrashReporter
    /\ exitCode = -1
    /\ osLocale = <<>>
    /\ userLocale = Undefined
    /\ nlsConfigurationPromise = NoPromise
    /\ mkdirTask = IdleTask
    /\ nlsTask = IdleTask
    /\ nlsConfig = NoNlsConfiguration
    /\ processEnv = NoEnv
    /\ userData = <<>>
    /\ traceRecording = "none"
    /\ onReadyCalls = 0
    /\ getLocaleCalls = 0
    /\ mainImports = 0
    /\ willFinishLaunchingListeners = 0
    /\ openFileListeners = 0
    /\ openUrlListeners = 0
    /\ macOpenFiles = <<>>
    /\ openUrls = <<>>
    /\ openUrlsReads = <<>>
    /\ hostQueue \in Queues
    /\ hostLog = <<>>

\* an environment whose host runtime emits no open-file or open-url event
InitWith(Platforms, Archs, Devs, Products, Languages, Locales, Files, Argvs) ==
    InitWithEvents(Platforms, Archs, Devs, Products, Languages, Locales, Files,
                   Argvs, { <<>> })

(***************************************************************************)
(* The script, top to bottom (lines 62-327).                               *)
(***************************************************************************)
\* line 70: const args = parseCLIArgs()
ParseCLIArgs ==
    /\ pc = "ParsingArgs"
    /\ args' = parseCLIArgs(argv)
    /\ pc' = "ConfiguringSwitches"
    /\ UNCHANGED << envVars, argvFile, argv, argvConfig, commandLine,
                    hwAccelDisabled, sandboxEnabled, console, codeCachePath,
                    createdDirs, crashDumps, crashReporter, exitCode, osLocale,
                    userLocale, nlsConfigurationPromise, mkdirTask, nlsTask,
                    nlsConfig, processEnv,
                    userData, readyVars, listenerVars >>

\* line 78: const argvConfig = configureCommandlineSwitchesSync(args)
ConfigureCommandlineSwitchesSync ==
    /\ pc = "ConfiguringSwitches"
    /\ \E canWrite \in BOOLEAN :
          LET read == readArgvConfigSync(argvFile, canWrite)
              st == ResolveSwitches(platform, args, read.config,
                        SwitchState(commandLine, hwAccelDisabled, argv,
                                    console \o read.console))
          IN /\ argvFile' = read.file
             /\ argvConfig' = read.config
             /\ commandLine' = st.commandLine
             /\ hwAccelDisabled' = st.hwAccelDisabled
             /\ argv' = st.argv
             /\ console' = st.console
    /\ pc' = "ConfiguringSandbox"
    /\ UNCHANGED << envVars, args, sandboxEnabled, codeCachePath, createdDirs,
                    crashDumps, crashReporter, exitCode, osLocale, userLocale,
                    nlsConfigurationPromise, mkdirTask, nlsTask, nlsConfig,
                    processEnv,
                    userData, readyVars, listenerVars >>

\* faulty variant: with --no-sandbox given the GPU sandbox is left alone
ConfigureSandboxKeepingGpu ==
    /\ pc = "ConfiguringSandbox"
    /\ IF /\ Truthy(args["sandbox"])
          /\ ~Truthy(args["disable-chromium-sandbox"])
          /\ ~Truthy(Get(argvConfig, "disable-chromium-sandbox"))
       THEN /\ sandboxEnabled' = TRUE
            /\ UNCHANGED commandLine
       ELSE IF hasSwitch(commandLine, "no-sandbox")
       THEN UNCHANGED << commandLine, sandboxEnabled >>
       ELSE /\ commandLine' =
                  appendSwitch(appendSwitch(commandLine, "no-sandbox", <<>>),
                               "disable-gpu-sandbox", <<>>)
            /\ UNCHANGED sandboxEnabled
    /\ pc' = "ResolvingPaths"
    /\ UNCHANGED << envVars, argvFile, argv, args, argvConfig, hwAccelDisabled,
                    console, codeCachePath, createdDirs, crashDumps,
                    crashReporter, exitCode, osLocale, userLocale,
                    nlsConfigurationPromise, mkdirTask, nlsTask, nlsConfig,
                    processEnv,
                    userData, readyVars, listenerVars >>

\* lines 91-107
ConfigureSandbox ==
    /\ pc = "ConfiguringSandbox"
    /\ IF /\ Truthy(args["sandbox"])
          /\ ~Truthy(args["disable-chromium-sandbox"])
          /\ ~Truthy(Get(argvConfig, "disable-chromium-sandbox"))
       THEN /\ sandboxEnabled' = TRUE
            /\ UNCHANGED commandLine
       ELSE IF /\ hasSwitch(commandLine, "no-sandbox")
               /\ ~hasSwitch(commandLine, "disable-gpu-sandbox")
       THEN /\ commandLine' = appendSwitch(commandLine, "disable-gpu-sandbox", <<>>)
            /\ UNCHANGED sandboxEnabled
       ELSE /\ commandLine' =
                  appendSwitch(appendSwitch(commandLine, "no-sandbox", <<>>),
                               "disable-gpu-sandbox", <<>>)
            /\ UNCHANGED sandboxEnabled
    /\ pc' = "ResolvingPaths"
    /\ UNCHANGED << envVars, argvFile, argv, args, argvConfig, hwAccelDisabled,
                    console, codeCachePath, createdDirs, crashDumps,
                    crashReporter, exitCode, osLocale, userLocale,
                    nlsConfigurationPromise, mkdirTask, nlsTask, nlsConfig,
                    processEnv,
                    userData, readyVars, listenerVars >>

UserDataPath == <<"userData">>
NoCachedDataFlag == Str(<<"--", "no-cached-data">>)

\* getCodeCachePath
getCodeCachePath(av, dev, prod) ==
    IF indexOf(av, NoCachedDataFlag) > 1 THEN Undefined
    ELSE IF dev THEN Undefined
    ELSE IF ~prod.commit THEN Undefined
    ELSE Str(UserDataPath \o <<"/", "CachedData", "/", "commit">>)

\* lines 120-149: the userData path and the code cache path
ResolvePaths ==
    /\ pc = "ResolvingPaths"
    /\ userData' = UserDataPath
    /\ codeCachePath' = getCodeCachePath(argv, isDev, product)
    /\ pc' = "ConfiguringCrashReporter"
    /\ UNCHANGED << envVars, argvFile, argv, args, argvConfig, commandLine,
                    hwAccelDisabled, sandboxEnabled, console, createdDirs,
                    crashDumps, crashReporter, exitCode, osLocale, userLocale,
                    nlsConfigurationPromise, mkdirTask, nlsTask, nlsConfig,
                    processEnv, readyVars, listenerVars >>

\* faulty variant: --disable-crash-reporter does not override argv.json
CrashReporterEnabledIgnoringDisable ==
    \/ Truthy(args["crash-reporter-directory"])
    \/ Truthy(Get(argvConfig, "enable-crash-reporter"))

\* line 170: the policy that enables the crash reporter
CrashReporterEnabled ==
    \/ Truthy(args["crash-reporter-directory"])
    \/ /\ Truthy(Get(argvConfig, "enable-crash-reporter"))
       /\ ~Truthy(args["disable-crash-reporter"])

\* faulty variant: the exit waits for the event loop, the script goes on
ExitWhenLoopRuns(code, message) ==
    /\ pc' = "ResolvingEarlyNls"
    /\ exitCode' = code
    /\ console' = Append(console, message)

\* app.exit(1): the process ends here, nothing after the call runs
Exit(code, message) ==
    /\ pc' = "Exited"
    /\ exitCode' = code
    /\ console' = Append(console, message)

\* lines 807-823: crashReporter.start({...})
StartedCrashReporter(submitURL, crashReporterDirectory) ==
    [started |-> crashReporter.started + 1,
     submitURL |-> submitURL,
     uploadToServer |-> uploadToServer(isDev, submitURL, crashReporterDirectory),
     devSuffix |-> isDev,
     compress |-> TRUE]

\* faulty variant: the AppCenter endpoint is used next to the directory
configureLocalCrashReporterWithEndpoint(crashReporterDirectory) ==
    LET dir == normalize(platform, crashReporterDirectory.s)
        crashReporterId == Get(argvConfig, "crash-reporter-id")
        remote == /\ product.appCenter
                  /\ Truthy(crashReporterId)
                  /\ uuidPatternTest(crashReporterId)
        submitURL ==
            IF remote
            THEN WithCorrelationIds(
                     SelectSubmitURL(platform, arch, product.universal),
                     crashReporterId)
            ELSE <<>>
    IN IF ~isAbsolute(platform, dir)
       THEN /\ Exit(1, "error: --crash-reporter-directory must be absolute")
            /\ UNCHANGED << argv, createdDirs, crashDumps, crashReporter >>
       ELSE \E exists \in BOOLEAN, canCreate \in BOOLEAN :
               IF ~exists /\ ~canCreate
               THEN /\ Exit(1, "error: --crash-reporter-directory cannot be created")
                    /\ UNCHANGED << argv, createdDirs, crashDumps, crashReporter >>
               ELSE /\ createdDirs' =
                          IF exists THEN createdDirs ELSE createdDirs \cup {dir}
                    /\ crashDumps' = dir
                    /\ argv' = IF remote
                               THEN PropagateCrashReporterId(argv, crashReporterId)
                               ELSE argv
                    /\ crashReporter' =
                          StartedCrashReporter(submitURL, crashReporterDirectory)
                    /\ pc' = "ResolvingEarlyNls"
                    /\ UNCHANGED << exitCode, console >>

\* lines 710-734: --crash-reporter-directory was given
configureLocalCrashReporter(crashReporterDirectory) ==
    LET dir == normalize(platform, crashReporterDirectory.s)
    IN IF ~isAbsolute(platform, dir)
       THEN /\ Exit(1, "error: --crash-reporter-directory must be absolute")
            /\ UNCHANGED << argv, createdDirs, crashDumps, crashReporter >>
       ELSE \E exists \in BOOLEAN, canCreate \in BOOLEAN :
               IF ~exists /\ ~canCreate
               THEN /\ Exit(1, "error: --crash-reporter-directory cannot be created")
                    /\ UNCHANGED << argv, createdDirs, crashDumps, crashReporter >>
               ELSE /\ createdDirs' =
                          IF exists THEN createdDirs ELSE createdDirs \cup {dir}
                    /\ crashDumps' = dir
                    /\ crashReporter' =
                          StartedCrashReporter(<<>>, crashReporterDirectory)
                    /\ pc' = "ResolvingEarlyNls"
                    /\ UNCHANGED << argv, exitCode, console >>

\* faulty variant: the id is not tested against the UUID pattern
IdIsUsableAnyString(id) == Truthy(id)

\* line 751: the stored id is present and matches the UUID pattern
IdIsUsable(id) == Truthy(id) /\ uuidPatternTest(id)

\* lines 739-800: no directory was given, the AppCenter endpoint is used
configureRemoteCrashReporter(crashReporterDirectory) ==
    LET crashReporterId == Get(argvConfig, "crash-reporter-id")
        remote == product.appCenter /\ IdIsUsable(crashReporterId)
        submitURL ==
            IF remote
            THEN WithCorrelationIds(
                     SelectSubmitURL(platform, arch, product.universal),
                     crashReporterId)
            ELSE <<>>
    IN /\ argv' = IF remote
                  THEN PropagateCrashReporterId(argv, crashReporterId)
                  ELSE argv
       /\ crashReporter' = StartedCrashReporter(submitURL, crashReporterDirectory)
       /\ pc' = "ResolvingEarlyNls"
       /\ UNCHANGED << createdDirs, crashDumps, exitCode, console >>

\* configureCrashReporter
configureCrashReporter ==
    LET crashReporterDirectory == args["crash-reporter-directory"]
    IN IF Truthy(crashReporterDirectory)
       THEN configureLocalCrashReporter(crashReporterDirectory)
       ELSE configureRemoteCrashReporter(crashReporterDirectory)

\* lines 156-175
ConfigureCrashReporter ==
    /\ pc = "ConfiguringCrashReporter"
    /\ IF CrashReporterEnabled
       THEN configureCrashReporter
       ELSE /\ pc' = "ResolvingEarlyNls"
            /\ UNCHANGED << argv, createdDirs, crashDumps, crashReporter,
                            exitCode, console >>
    /\ UNCHANGED << envVars, argvFile, args, argvConfig, commandLine,
                    hwAccelDisabled, sandboxEnabled, codeCachePath, osLocale,
                    userLocale, nlsConfigurationPromise, mkdirTask, nlsTask,
                    nlsConfig, processEnv,
                    userData, readyVars, listenerVars >>

\* faulty variant: the user locale is handed to the host runtime as it is
electronLocaleVerbatim(user) ==
    IF ~Truthy(user) THEN L_en ELSE user.s

\* line 274: the locale handed to the host runtime
electronLocale(user) ==
    IF ~Truthy(user) \/ user = Str(L_qps_ploc) THEN L_en ELSE user.s

\* registerListeners: the open-file listener and the will-finish-launching
\* listener are registered, the two arrays are empty
registerListeners ==
    /\ macOpenFiles' = <<>>
    /\ openFileListeners' = openFileListeners + 1
    /\ openUrls' = <<>>
    /\ willFinishLaunchingListeners' = willFinishLaunchingListeners + 1
    /\ UNCHANGED << openUrlListeners, openUrlsReads, hostQueue, hostLog >>

\* lines 227-276: registerListeners, osLocale, userLocale, the early
\* resolution, the lang switch
ResolveEarlyNls ==
    /\ pc = "ResolvingEarlyNls"
    /\ registerListeners
    /\ LET os == processZhLocale(toLowerCase(
                     IF hostLanguage.t = "string" THEN hostLanguage.s ELSE L_en))
           user == getUserDefinedLocale(args, argvConfig)
       IN /\ osLocale' = os
          /\ userLocale' = user
          /\ nlsConfigurationPromise' =
                IF Truthy(user)
                THEN [state |-> "pending", userLocale |-> user.s,
                      osLocale |-> os, value |-> NoNlsConfiguration]
                ELSE NoPromise
          /\ commandLine' =
                IF platform \in { "win32", "linux" }
                THEN appendSwitch(commandLine, "lang", electronLocale(user))
                ELSE commandLine
    /\ pc' = "AwaitingRuntimeReady"
    /\ UNCHANGED << envVars, argvFile, argv, args, argvConfig, hwAccelDisabled,
                    sandboxEnabled, console, codeCachePath, createdDirs,
                    crashDumps, crashReporter, exitCode, mkdirTask, nlsTask,
                    nlsConfig, processEnv, userData, readyVars >>

(***************************************************************************)
(* After the readiness signal (lines 283-384, 995-1007, 1054-1099).        *)
(***************************************************************************)
\* the script has run to its end and the event loop is turning
EventLoopRunning ==
    pc \in { "AwaitingRuntimeReady", "Tracing", "ReadyHandlerRunning",
             "StartingUp", "ApplicationLoaded", "ReadyHandlerFailed" }

\* faulty variant: the early resolution is not looked at
BeginResolveNlsConfigurationFromHost ==
    IF Len(hostLocale) = 0
    THEN [state |-> "done", userLocale |-> <<>>,
          value |-> DefaultNlsConfiguration(osLocale)]
    ELSE [state |-> "resolving",
          userLocale |-> processZhLocale(toLowerCase(hostLocale)),
          value |-> NoNlsConfiguration]

\* faulty variant: the early resolution is awaited even if there is none
BeginResolveNlsConfigurationAwaiting ==
    [state |-> "awaitingEarly", userLocale |-> <<>>,
     value |-> NoNlsConfiguration]

\* resolveNlsConfiguration up to its first suspension
BeginResolveNlsConfiguration ==
    IF nlsConfigurationPromise.state # "none"
    THEN [state |-> "awaitingEarly", userLocale |-> <<>>,
          value |-> NoNlsConfiguration]
    ELSE IF Len(hostLocale) = 0
    THEN [state |-> "done", userLocale |-> <<>>,
          value |-> DefaultNlsConfiguration(osLocale)]
    ELSE [state |-> "resolving",
          userLocale |-> processZhLocale(toLowerCase(hostLocale)),
          value |-> NoNlsConfiguration]

\* mkdirpIgnoreError up to its first suspension
BeginMkdirpIgnoreError ==
    IF codeCachePath.t = "string"
    THEN [IdleTask EXCEPT !.state = "pending"]
    ELSE [IdleTask EXCEPT !.state = "done"]

\* onReady up to the Promise.all
BeginOnReady ==
    /\ pc' = "ReadyHandlerRunning"
    /\ onReadyCalls' = onReadyCalls + 1
    /\ mkdirTask' = BeginMkdirpIgnoreError
    /\ nlsTask' = BeginResolveNlsConfiguration
    /\ getLocaleCalls' =
          IF nlsTask'.state = "awaitingEarly" THEN getLocaleCalls
          ELSE getLocaleCalls + 1
    /\ UNCHANGED mainImports

\* an entry of the log of host events and accessor calls
HostEvent(event, arg) == [event |-> event, arg |-> arg]
Emitted(event) == \E i \in 1..Len(hostLog) : hostLog[i].event = event

\* the host runtime emits will-finish-launching, once and before ready: the
\* listener of line 936 registers onOpenUrl on 'open-url'
WillFinishLaunching ==
    /\ pc = "AwaitingRuntimeReady"
    /\ ~Emitted("will-finish-launching")
    /\ openUrlListeners' = openUrlListeners + willFinishLaunchingListeners
    /\ hostLog' = Append(hostLog, HostEvent("will-finish-launching", ""))
    /\ UNCHANGED << envVars, argvFile, pc, argv, args, argvConfig, commandLine,
                    hwAccelDisabled, sandboxEnabled, console, codeCachePath,
                    createdDirs, crashDumps, crashReporter, exitCode, osLocale,
                    userLocale, nlsConfigurationPromise, mkdirTask, nlsTask,
                    nlsConfig, processEnv, userData, readyVars,
                    willFinishLaunchingListeners, openFileListeners,
                    macOpenFiles, openUrls, openUrlsReads, hostQueue >>

\* faulty variant: the ready handler may run while the script is still running
ReadySignalledDuringScript ==
    pc \in { "ResolvingPaths", "AwaitingRuntimeReady" }

\* line 283: the host runtime emits ready once the script has returned,
\* after will-finish-launching
ReadySignalled ==
    pc = "AwaitingRuntimeReady" /\ Emitted("will-finish-launching")

\* app.once('ready', ...)
AppReady ==
    /\ ReadySignalled
    /\ IF Truthy(args["trace"])
       THEN /\ pc' = "Tracing"
            /\ traceRecording' = "pending"
            /\ UNCHANGED << mkdirTask, nlsTask, onReadyCalls, getLocaleCalls,
                            mainImports >>
       ELSE /\ BeginOnReady
            /\ UNCHANGED traceRecording
    /\ hostLog' = Append(hostLog, HostEvent("ready", ""))
    /\ UNCHANGED << envVars, argvFile, argv, args, argvConfig, commandLine,
                    hwAccelDisabled, sandboxEnabled, console, codeCachePath,
                    createdDirs, crashDumps, crashReporter, exitCode, osLocale,
                    userLocale, nlsConfigurationPromise, nlsConfig, processEnv,
                    userData, willFinishLaunchingListeners, openFileListeners,
                    openUrlListeners, macOpenFiles, openUrls, openUrlsReads,
                    hostQueue >>

\* faulty variant: .then(() => onReady()), which a failure skips
ThenCallbackRuns(outcome) == outcome = "started"

\* line 322: .finally(() => onReady()), the callback runs when the recording
\* has started and when starting it has failed
FinallyCallbackRuns(outcome) == outcome \in { "started", "failed" }

\* contentTracing.startRecording(...) settles
TraceRecordingSettles ==
    /\ pc = "Tracing"
    /\ traceRecording = "pending"
    /\ \E outcome \in { "started", "failed" } :
          /\ traceRecording' = outcome
          /\ IF FinallyCallbackRuns(outcome)
             THEN BeginOnReady
             ELSE UNCHANGED << pc, mkdirTask, nlsTask, onReadyCalls,
                               getLocaleCalls, mainImports >>
    /\ UNCHANGED << envVars, argvFile, argv, args, argvConfig, commandLine,
                    hwAccelDisabled, sandboxEnabled, console, codeCachePath,
                    createdDirs, crashDumps, crashReporter, exitCode, osLocale,
                    userLocale, nlsConfigurationPromise, nlsConfig, processEnv,
                    userData, listenerVars >>

\* the early resolveNLSConfiguration(...) call settles
EarlyNlsSettles ==
    /\ EventLoopRunning
    /\ nlsConfigurationPromise.state = "pending"
    /\ \E ok \in BOOLEAN, packFound \in BOOLEAN :
          nlsConfigurationPromise' =
              IF ok
              THEN [nlsConfigurationPromise EXCEPT
                        !.state = "resolved",
                        !.value = resolveNLSConfiguration(
                                      nlsConfigurationPromise.userLocale,
                                      nlsConfigurationPromise.osLocale,
                                      packFound)]
              ELSE [nlsConfigurationPromise EXCEPT !.state = "rejected"]
    /\ UNCHANGED << envVars, argvFile, pc, argv, args, argvConfig, commandLine,
                    hwAccelDisabled, sandboxEnabled, console, codeCachePath,
                    createdDirs, crashDumps, crashReporter, exitCode, osLocale,
                    userLocale, mkdirTask, nlsTask, nlsConfig, processEnv,
                    userData, readyVars, listenerVars >>

\* lines 1061-1064: await nlsConfigurationPromise
AwaitEarlyNls ==
    /\ pc = "ReadyHandlerRunning"
    /\ nlsTask.state = "awaitingEarly"
    /\ nlsConfigurationPromise.state \in { "resolved", "rejected" }
    /\ nlsTask' =
          IF nlsConfigurationPromise.state = "resolved"
          THEN [nlsTask EXCEPT !.state = "done",
                               !.value = nlsConfigurationPromise.value]
          ELSE [nlsTask EXCEPT !.state = "failed"]
    /\ UNCHANGED << envVars, argvFile, pc, argv, args, argvConfig, commandLine,
                    hwAccelDisabled, sandboxEnabled, console, codeCachePath,
                    createdDirs, crashDumps, crashReporter, exitCode, osLocale,
                    userLocale, nlsConfigurationPromise, mkdirTask, nlsConfig,
                    processEnv, userData, readyVars, listenerVars >>

\* lines 1092-1098: the late resolveNLSConfiguration(...) call settles
LateNlsSettles ==
    /\ pc = "ReadyHandlerRunning"
    /\ nlsTask.state = "resolving"
    /\ \E ok \in BOOLEAN, packFound \in BOOLEAN :
          nlsTask' =
              IF ok
              THEN [nlsTask EXCEPT
                        !.state = "done",
                        !.value = resolveNLSConfiguration(nlsTask.userLocale,
                                                          osLocale, packFound)]
              ELSE [nlsTask EXCEPT !.state = "failed"]
    /\ UNCHANGED << envVars, argvFile, pc, argv, args, argvConfig, commandLine,
                    hwAccelDisabled, sandboxEnabled, console, codeCachePath,
                    createdDirs, crashDumps, crashReporter, exitCode, osLocale,
                    userLocale, nlsConfigurationPromise, mkdirTask, nlsConfig,
                    processEnv, userData, readyVars, listenerVars >>

\* faulty variant: the error of fs.promises.mkdir is not caught
mkdirpRethrowing(task, ok) ==
    [task EXCEPT !.state = IF ok THEN "done" ELSE "failed"]

\* lines 996-1006: mkdirpIgnoreError after fs.promises.mkdir has settled,
\* the promise is fulfilled with dir or, the error swallowed, with undefined
mkdirpIgnoreError(task, ok) == [task EXCEPT !.state = "done"]

\* fs.promises.mkdir settles
MkdirSettles ==
    /\ pc \in { "ReadyHandlerRunning", "ReadyHandlerFailed" }
    /\ mkdirTask.state = "pending"
    /\ \E ok \in BOOLEAN :
          /\ mkdirTask' = mkdirpIgnoreError(mkdirTask, ok)
          /\ createdDirs' = IF ok THEN createdDirs \cup {codeCachePath.s}
                            ELSE createdDirs
    /\ UNCHANGED << envVars, argvFile, pc, argv, args, argvConfig, commandLine,
                    hwAccelDisabled, sandboxEnabled, console, codeCachePath,
                    crashDumps, crashReporter, exitCode, osLocale, userLocale,
                    nlsConfigurationPromise, nlsTask, nlsConfig, processEnv,
                    userData, readyVars, listenerVars >>

\* faulty variant: the first fulfilled task lets the handler go on
PromiseAny(first, second) == first.state = "done" \/ second.state = "done"

\* line 345: Promise.all is fulfilled when both tasks are
PromiseAll(first, second) == first.state = "done" /\ second.state = "done"

\* line 345: Promise.all is rejected as soon as one task is
PromiseAllRejected(first, second) ==
    first.state = "failed" \/ second.state = "failed"

\* lines 345-351 and 367-372: both tasks are done, startup publishes
Startup ==
    /\ pc = "ReadyHandlerRunning"
    /\ PromiseAll(mkdirTask, nlsTask)
    /\ nlsConfig' = nlsTask.value
    /\ processEnv' = [published |-> TRUE, nlsConfig |-> nlsTask.value,
                      codeCachePath |-> IF Truthy(codeCachePath)
                                        THEN codeCachePath.s ELSE <<>>]
    /\ pc' = "StartingUp"
    /\ UNCHANGED << envVars, argvFile, argv, args, argvConfig, commandLine,
                    hwAccelDisabled, sandboxEnabled, console, codeCachePath,
                    createdDirs, crashDumps, crashReporter, exitCode, osLocale,
                    userLocale, nlsConfigurationPromise, mkdirTask, nlsTask,
                    userData, readyVars, listenerVars >>

\* lines 376-383: bootstrapESM and the import of the application; an error
\* of either is caught at lines 352-354
LoadApplication ==
    /\ pc = "StartingUp"
    /\ \E outcome \in { "loaded", "bootstrapESM failed", "import failed" } :
          /\ mainImports' = IF outcome = "bootstrapESM failed"
                            THEN mainImports ELSE mainImports + 1
          /\ IF outcome = "loaded"
             THEN pc' = "ApplicationLoaded" /\ UNCHANGED console
             ELSE /\ pc' = "ReadyHandlerFailed"
                  /\ console' = Append(console, "error: " \o outcome)
    /\ UNCHANGED << envVars, argvFile, argv, args, argvConfig, commandLine,
                    hwAccelDisabled, sandboxEnabled, codeCachePath,
                    createdDirs, crashDumps, crashReporter, exitCode, osLocale,
                    userLocale, nlsConfigurationPromise, mkdirTask, nlsTask,
                    nlsConfig, processEnv, userData, traceRecording,
                    onReadyCalls, getLocaleCalls, listenerVars >>

\* faulty variant: the error is logged and takes the process down
CatchReadyErrorAndExit ==
    /\ pc = "ReadyHandlerRunning"
    /\ PromiseAllRejected(mkdirTask, nlsTask)
    /\ pc' = "Exited"
    /\ exitCode' = 1
    /\ console' = Append(console, "error: setup failed")
    /\ UNCHANGED << envVars, argvFile, argv, args, argvConfig, commandLine,
                    hwAccelDisabled, sandboxEnabled, codeCachePath,
                    createdDirs, crashDumps, crashReporter, osLocale,
                    userLocale, nlsConfigurationPromise, mkdirTask, nlsTask,
                    nlsConfig, processEnv, userData, readyVars, listenerVars >>

\* lines 352-354: the Promise.all rejected, the error is logged
CatchReadyError ==
    /\ pc = "ReadyHandlerRunning"
    /\ PromiseAllRejected(mkdirTask, nlsTask)
    /\ pc' = "ReadyHandlerFailed"
    /\ console' = Append(console, "error: setup failed")
    /\ UNCHANGED << envVars, argvFile, argv, args, argvConfig, commandLine,
                    hwAccelDisabled, sandboxEnabled, codeCachePath,
                    createdDirs, crashDumps, crashReporter, exitCode, osLocale,
                    userLocale, nlsConfigurationPromise, mkdirTask, nlsTask,
                    nlsConfig, processEnv, userData, readyVars, listenerVars >>

(***************************************************************************)
(* The events of the host runtime and the accessor (lines 899-946).        *)
(***************************************************************************)
\* faulty variant: the value is put in front of the list
Unshifted(list, value, registrations) ==
    [i \in 1..registrations |-> value] \o list

\* EventEmitter.emit: every registration of the listener pushes the value
Pushed(list, value, registrations) ==
    list \o [i \in 1..registrations |-> value]

\* line 915: open-file is emitted
OpenFile ==
    /\ EventLoopRunning
    /\ hostQueue # <<>>
    /\ Head(hostQueue).event = "open-file"
    /\ macOpenFiles' =
          Pushed(macOpenFiles, Head(hostQueue).arg, openFileListeners)
    /\ hostQueue' = Tail(hostQueue)
    /\ hostLog' = Append(hostLog, Head(hostQueue))
    /\ UNCHANGED << envVars, argvFile, pc, argv, args, argvConfig, commandLine,
                    hwAccelDisabled, sandboxEnabled, console, codeCachePath,
                    createdDirs, crashDumps, crashReporter, exitCode, osLocale,
                    userLocale, nlsConfigurationPromise, mkdirTask, nlsTask,
                    nlsConfig, processEnv, userData, readyVars,
                    willFinishLaunchingListeners, openFileListeners,
                    openUrlListeners, openUrls, openUrlsReads >>

\* lines 928-932: open-url is emitted, onOpenUrl runs if it is registered
OpenUrl ==
    /\ EventLoopRunning
    /\ hostQueue # <<>>
    /\ Head(hostQueue).event = "open-url"
    /\ openUrls' = Pushed(openUrls, Head(hostQueue).arg, openUrlListeners)
    /\ hostQueue' = Tail(hostQueue)
    /\ hostLog' = Append(hostLog, Head(hostQueue))
    /\ UNCHANGED << envVars, argvFile, pc, argv, args, argvConfig, commandLine,
                    hwAccelDisabled, sandboxEnabled, console, codeCachePath,
                    createdDirs, crashDumps, crashReporter, exitCode, osLocale,
                    userLocale, nlsConfigurationPromise, mkdirTask, nlsTask,
                    nlsConfig, processEnv, userData, readyVars,
                    willFinishLaunchingListeners, openFileListeners,
                    openUrlListeners, macOpenFiles, openUrlsReads >>

\* faulty variant: the accessor leaves the listener registered
KeepListener(registrations) == registrations

\* line 941: app.removeListener('open-url', onOpenUrl) removes one
\* registration of the listener, if there is one
removeListener(registrations) ==
    IF registrations > 0 THEN registrations - 1 ELSE 0

\* lines 939-945: the application reads globalThis.getOpenUrls()
GetOpenUrls ==
    /\ pc = "ApplicationLoaded"
    /\ Len(openUrlsReads) < MaxReads
    /\ openUrlListeners' = removeListener(openUrlListeners)
    /\ openUrlsReads' = Append(openUrlsReads, openUrls)
    /\ hostLog' = Append(hostLog, HostEvent("getOpenUrls", ""))
    /\ UNCHANGED << envVars, argvFile, pc, argv, args, argvConfig, commandLine,
                    hwAccelDisabled, sandboxEnabled, console, codeCachePath,
                    createdDirs, crashDumps, crashReporter, exitCode, osLocale,
                    userLocale, nlsConfigurationPromise, mkdirTask, nlsTask,
                    nlsConfig, processEnv, userData, readyVars,
                    willFinishLaunchingListeners, openFileListeners,
                    macOpenFiles, openUrls, hostQueue >>

Next ==
    \/ ParseCLIArgs
    \/ ConfigureCommandlineSwitchesSync
    \/ ConfigureSandbox
    \/ ResolvePaths
    \/ ConfigureCrashReporter
    \/ ResolveEarlyNls
    \/ WillFinishLaunching
    \/ AppReady
    \/ TraceRecordingSettles
    \/ EarlyNlsSettles
    \/ AwaitEarlyNls
    \/ LateNlsSettles
    \/ MkdirSettles
    \/ Startup
    \/ LoadApplication
    \/ CatchReadyError
    \/ OpenFile
    \/ OpenUrl
    \/ GetOpenUrls

(***************************************************************************)
(* The environments that are enumerated.                                   *)
(***************************************************************************)
Exe == Str(<<"code">>)
Opt(key) == Str(<<"--", key>>)
OptV(key, value) == Str(<<"--", key, "=">> \o value)
File == Str(<<"file.txt">>)

\* the subtags locales are built from, one atom per character
Subtags ==
    { <<"z", "h">>, <<"Z", "H">>, <<"z", "h", "o">>, <<"z", "h", "_", "C", "N">>,
      <<"D", "E">>, <<"h", "a", "n", "s">>, <<"H", "a", "n", "t">>,
      <<"c", "n">>, <<"C", "N">>, <<"s", "g">>, <<"m", "y">>, <<>> }

\* every locale of 1..n subtags
RECURSIVE LocalesOf(_)
LocalesOf(n) ==
    IF n = 1 THEN Subtags
    ELSE LET shorter == LocalesOf(n - 1)
         IN shorter \cup { l \o <<"-">> \o t : l \in shorter, t \in Subtags }

LocaleTexts == LocalesOf(MaxSubtags)

\* a few locales that are told apart after normalisation
L_DE == <<"D", "E">>
L_Fr == <<"F", "r">>
L_it == <<"i", "t">>
L_zh_Hans == <<"z", "h", "-", "H", "a", "n", "s">>
L_zh_HK == <<"z", "h", "-", "H", "K">>

\* every config of at most n entries drawn from Entries, keys distinct
RECURSIVE ConfigsOf(_, _)
ConfigsOf(Entries, n) ==
    IF n = 0 THEN { <<>> }
    ELSE LET shorter == ConfigsOf(Entries, n - 1)
         IN shorter \cup
            UNION { { Append(c, e) : e \in
                        { x \in Entries : \A i \in 1..Len(c) : c[i].key # x.key } } :
                    c \in shorter }

Entry(key, value) == [key |-> key, value |-> value]

Products(AppCenters, Universals, Commits) ==
    { [appCenter |-> a, universal |-> u, commit |-> c] :
        a \in AppCenters, u \in Universals, c \in Commits }
ReleaseProduct == [appCenter |-> TRUE, universal |-> FALSE, commit |-> TRUE]

\* crash reporter ids, one atom per character
Rep(c, n) == [i \in 1..n |-> c]
UuidOf(c) ==
    Rep(c, 8) \o <<"-">> \o Rep(c, 4) \o <<"-">> \o Rep(c, 4) \o <<"-">>
        \o Rep(c, 4) \o <<"-">> \o Rep(c, 12)
ValidIds == { Str(UuidOf("a")), Str(UuidOf("F")), Str(UuidOf("0")) }
InvalidIds ==
    { Str(<<"n", "o", "t", "-", "a", "-", "u", "u", "i", "d">>),
      Str(UuidOf("g")),
      Str(SubSeq(UuidOf("a"), 1, 35)),
      Str(UuidOf("a") \o <<"a">>),
      Str(Rep("a", 36)),
      Str(<<>>),
      Bool(TRUE) }

\* crash reporter directories
AbsoluteDir == <<"/", "tmp", "/", "crashes">>
DottedAbsoluteDir == <<"/", "tmp", "/", "..", "/", "crashes", "/">>
DriveDir == <<"C:", "/", "crashes">>
RelativeDir == <<"relative", "/", "path">>
DotRelativeDir == <<".", "/", "crashes">>
UpRelativeDir == <<"..", "/", "crashes">>

\* a small cross-section of environments that takes every step of the
\* bootstrap; every specification below starts from it and from one family
BaseArgvs ==
    { <<Exe>>,
      <<Exe, Opt("trace"), Opt("no-cached-data")>>,
      <<Exe, OptV("locale", L_DE), OptV("crash-reporter-directory", AbsoluteDir)>>,
      <<Exe, OptV("crash-reporter-directory", RelativeDir)>>,
      <<Exe, Opt("no-sandbox"), Str(<<"--">>), File>> }
BaseFiles ==
    { MissingFile, UnreadableFile, GarbageFile,
      JsonFile(<<Entry("enable-crash-reporter", Bool(TRUE)),
                 Entry("crash-reporter-id", Str(UuidOf("a")))>>),
      JsonFile(<<Entry("locale", Str(L_Fr))>>) }

\* the events of the host runtime: dropped files and deep links
OpenFileEvents == { HostEvent("open-file", "a.txt") }
OpenUrlEvents ==
    { HostEvent("open-url", "vscode://a"), HostEvent("open-url", "vscode://b") }
RECURSIVE QueuesOf(_, _)
QueuesOf(Events, n) ==
    IF n = 0 THEN { <<>> }
    ELSE LET shorter == QueuesOf(Events, n - 1)
         IN shorter \cup { Append(q, e) : q \in shorter, e \in Events }

InitBase ==
    \/ InitWith({ "linux", "darwin" }, { "x64" }, { FALSE }, { ReleaseProduct },
                { Str(L_zh_HK) }, { <<>>, L_it }, BaseFiles, BaseArgvs)
    \/ InitWithEvents({ "darwin" }, { "x64" }, { FALSE }, { ReleaseProduct },
                      { Str(L_zh_HK) }, { <<>> }, { MissingFile }, { <<Exe>> },
                      { << HostEvent("open-file", "a.txt"),
                           HostEvent("open-url", "vscode://a") >> })

Spec == InitBase /\ [][Next]_vars

\* the script runs to its end, the host runtime emits its launch events and
\* every operation the bootstrap has started settles
Script ==
    \/ ParseCLIArgs
    \/ ConfigureCommandlineSwitchesSync
    \/ ConfigureSandbox
    \/ ResolvePaths
    \/ ConfigureCrashReporter
    \/ ResolveEarlyNls
Fairness ==
    /\ WF_vars(Script)
    /\ WF_vars(WillFinishLaunching)
    /\ WF_vars(AppReady)
    /\ WF_vars(TraceRecordingSettles)
    /\ WF_vars(EarlyNlsSettles)
    /\ WF_vars(AwaitEarlyNls)
    /\ WF_vars(LateNlsSettles)
    /\ WF_vars(MkdirSettles)
    /\ WF_vars(Startup)
    /\ WF_vars(LoadApplication)
    /\ WF_vars(CatchReadyError)
SpecLive == InitBase /\ [][Next]_vars /\ Fairness

(***************************************************************************)
(* Locale resolution: environments that vary one locale source at a time.  *)
(***************************************************************************)
NoCacheProduct == [appCenter |-> TRUE, universal |-> FALSE, commit |-> FALSE]
LocaleFiles == { MissingFile, JsonFile(<<Entry("locale", Str(L_Fr))>>) }
LocaleArgvs == { <<Exe>>, <<Exe, OptV("locale", L_DE)>> }

InitHostLanguages ==
    InitWith({ "linux" }, { "x64" }, { FALSE }, { NoCacheProduct },
             { Undefined } \cup { Str(l) : l \in LocaleTexts },
             { <<>>, L_it }, { MissingFile }, { <<Exe>> })

InitHostLocales ==
    InitWith({ "linux" }, { "x64" }, { FALSE }, { NoCacheProduct },
             { Str(L_zh_HK) }, LocaleTexts, LocaleFiles, LocaleArgvs)

InitCliLocales ==
    InitWith({ "linux" }, { "x64" }, { FALSE }, { NoCacheProduct },
             { Str(L_zh_HK) }, { <<>>, L_it }, LocaleFiles,
             { <<Exe, OptV("locale", l)>> : l \in LocaleTexts })

InitConfigLocales ==
    InitWith({ "linux" }, { "x64" }, { FALSE }, { NoCacheProduct },
             { Str(L_zh_HK) }, { <<>>, L_it },
             { JsonFile(<<Entry("locale", v)>>) :
                 v \in { Str(l) : l \in LocaleTexts }
                       \cup { Bool(TRUE), Arr(<<Str(L_DE)>>) } },
             LocaleArgvs)

InitLocale ==
    \/ InitBase
    \/ InitHostLanguages
    \/ InitHostLocales
    \/ InitCliLocales
    \/ InitConfigLocales

SpecLocale == InitLocale /\ [][Next]_vars

\* the final language configuration exists once startup has published it
NlsConfigurationFinal == processEnv.published

CliLocalePresent == Truthy(args["locale"])
ConfigLocalePresent ==
    Get(argvConfig, "locale").t = "string" /\ Len(Get(argvConfig, "locale").s) > 0
HostLocalePresent == Len(hostLocale) > 0

\* a locale begins with the Chinese prefix
BeginsWithZh(l) == Len(l) >= 2 /\ l[1] = "z" /\ l[2] = "h"

\* the text between the first and the second hyphen of l is exactly r
RegionIs(l, r) ==
    \E i \in 1..Len(l) :
        /\ l[i] = "-"
        /\ \A j \in 1..(i - 1) : l[j] # "-"
        /\ Len(l) >= i + Len(r)
        /\ \A k \in 1..Len(r) : l[i + k] = r[k]
        /\ (Len(l) = i + Len(r) \/ l[i + Len(r) + 1] = "-")

\* what the normalisation rule of the specification gives for a locale
ZhCanonical(l) ==
    IF BeginsWithZh(l)
    THEN IF \E r \in SimplifiedRegions : RegionIs(l, r) THEN L_zh_cn ELSE L_zh_tw
    ELSE l

\* C1: the locale that drives the final language configuration is the
\* command-line locale if one is given, else the argv.json locale if one is
\* given, else the locale the host runtime reports if it reports one, else
\* English; each is taken in the lower-cased form the code hands on.
LocalePrecedence ==
    NlsConfigurationFinal =>
        nlsConfig.userLocale =
            IF CliLocalePresent THEN toLowerCase(args["locale"].s)
            ELSE IF ConfigLocalePresent
            THEN toLowerCase(Get(argvConfig, "locale").s)
            ELSE IF HostLocalePresent THEN ZhCanonical(toLowerCase(hostLocale))
            ELSE L_en

\* all three sources are present and the configuration is final
LocalePrecedenceWitness ==
    /\ NlsConfigurationFinal
    /\ CliLocalePresent /\ ConfigLocalePresent /\ HostLocalePresent
    /\ nlsConfig.userLocale = toLowerCase(L_DE)

\* osLocale and the late userLocale have been computed
OsLocaleComputed ==
    pc \notin { "ParsingArgs", "ConfiguringSwitches", "ConfiguringSandbox",
                "ResolvingPaths", "ConfiguringCrashReporter",
                "ResolvingEarlyNls", "Exited" }
PreferredLanguage == IF hostLanguage.t = "string" THEN hostLanguage.s ELSE L_en

\* C2: processZhLocale maps every locale that begins with zh to zh-cn when
\* its region subtag is hans, cn, sg or my and to zh-tw otherwise, and
\* returns every other locale as it is (the callers lower-case it first).
ChineseLocaleNormalization ==
    /\ OsLocaleComputed =>
          osLocale = ZhCanonical(toLowerCase(PreferredLanguage))
    /\ nlsTask.state = "resolving" =>
          nlsTask.userLocale = ZhCanonical(toLowerCase(hostLocale))

\* a Singapore locale of the host was mapped to simplified Chinese
ChineseLocaleNormalizationWitness ==
    /\ OsLocaleComputed
    /\ hostLanguage = Str(<<"z", "h", "-", "s", "g">>)
    /\ osLocale = L_zh_cn

(***************************************************************************)
(* The switch resolver: environments that vary argv.json.                  *)
(***************************************************************************)
ProposedApiIds ==
    Arr(<<Str(<<"ext.a">>), Str(<<>>), Bool(TRUE), Str(<<"ext.b">>)>>)

SwitchEntries ==
    { Entry("disable-hardware-acceleration", Bool(TRUE)),
      Entry("disable-hardware-acceleration", Bool(FALSE)),
      Entry("disable-hardware-acceleration", Str(<<"true">>)),
      Entry("password-store", Str(<<"gnome">>)),
      Entry("password-store", Str(<<"gnome-keyring">>)),
      Entry("password-store", Str(<<"kwallet5">>)),
      Entry("password-store", Bool(TRUE)),
      Entry("force-color-profile", Str(<<"srgb">>)),
      Entry("force-color-profile", Str(<<>>)),
      Entry("disable-lcd-text", Bool(TRUE)),
      Entry("disable-lcd-text", Bool(FALSE)),
      Entry("force-color-profile", Str(<<"true">>)),
      Entry("proxy-bypass-list", Arr(<<Str(<<"localhost">>)>>)),
      Entry("enable-proposed-api", ProposedApiIds),
      Entry("enable-proposed-api", Str(<<"ext.a">>)),
      Entry("log-level", Str(<<"trace">>)),
      Entry("log-level", Arr(<<Str(<<"debug">>), Bool(TRUE)>>)),
      Entry("log-level", Bool(TRUE)),
      Entry("use-inmemory-secretstorage", Bool(TRUE)),
      Entry("use-inmemory-secretstorage", Str(<<"false">>)),
      Entry("enable-rdp-display-tracking", Bool(FALSE)),
      Entry("remote-allow-origins", Str(<<"*">>)),
      Entry("disable-gpu", Bool(TRUE)),
      Entry("load-extension", Arr(<<Str(<<"/", "evil">>)>>)),
      Entry("enable-features", Str(<<"Evil">>)) }

UserFeatures == <<"UserFeature", ",", "OtherFeature">>
SwitchArgvs ==
    { <<Exe>>,
      <<Exe, OptV("enable-features", UserFeatures),
        OptV("disable-features", <<"UserOff">>), Str(<<"--">>), File>>,
      <<Exe, OptV("js-flags", <<"--expose-gc">>), Opt("password-store")>> }

InitArgvConfigs ==
    InitWith({ "linux", "win32" }, { "x64" }, { FALSE }, { NoCacheProduct },
             { Str(L_zh_HK) }, { <<>> },
             { JsonFile(c) : c \in ConfigsOf(SwitchEntries, MaxKeys) },
             SwitchArgvs)

InitSwitches == InitBase \/ InitArgvConfigs

SpecSwitches == InitSwitches /\ [][Next]_vars

\* the step that runs configureCommandlineSwitchesSync
SwitchResolverStep == pc = "ConfiguringSwitches" /\ pc' = "ConfiguringSandbox"
\* the resolver has just returned
SwitchResolverReturned == pc = "ConfiguringSandbox"

\* the switches the resolver appended to the host runtime in this step
AppendedSwitches == SubSeq(commandLine', Len(commandLine) + 1, Len(commandLine'))
AppendedNamed(name) ==
    { i \in 1..Len(AppendedSwitches) : AppendedSwitches[i].name = name }

AllowListed == SUPPORTED_ELECTRON_SWITCHES(platform) \cup SUPPORTED_MAIN_PROCESS_SWITCHES

\* the config without the entries whose key is in Keys
RECURSIVE Without(_, _)
Without(config, Keys) ==
    IF Len(config) = 0 THEN <<>>
    ELSE IF config[1].key \in Keys THEN Without(Tail(config), Keys)
    ELSE <<config[1]>> \o Without(Tail(config), Keys)

ConfigKeys(config) == { config[i].key : i \in 1..Len(config) }

\* what the resolver does to the state before the step for another config
ResolvedFor(config) ==
    ResolveSwitches(platform, args, config,
                    SwitchState(commandLine, hwAccelDisabled, argv, console))

\* the switch names the resolver appends whatever argv.json holds
AlwaysAppended ==
    { "enable-features", "disable-features", "disable-blink-features",
      "js-flags", "xdg-portal-required-version" }

\* C3: a key of argv.json that is in neither allow-list has no effect: the
\* resolver appends the switches and adds the argv tokens it would without
\* that key, and none of them is named after it; a runtime-switch key adds
\* no argv token and an application-switch key appends no switch.
AllowListOnly ==
    [][SwitchResolverStep =>
        LET unknown == ConfigKeys(argvConfig') \ AllowListed
            known == ResolvedFor(Without(argvConfig', unknown))
        IN /\ commandLine' = known.commandLine
           /\ argv' = known.argv
           /\ hwAccelDisabled' = known.hwAccelDisabled
           /\ \A k \in unknown \ AlwaysAppended : AppendedNamed(k) = {}
           /\ SUPPORTED_ELECTRON_SWITCHES(platform)
                 \cap SUPPORTED_MAIN_PROCESS_SWITCHES = {}
           /\ argv' = ResolvedFor(Without(argvConfig',
                          SUPPORTED_ELECTRON_SWITCHES(platform))).argv
           /\ commandLine' = ResolvedFor(Without(argvConfig',
                          SUPPORTED_MAIN_PROCESS_SWITCHES)).commandLine
      ]_vars

\* the resolver returned for a config with an unknown key and a known one
AllowListOnlyWitness ==
    /\ SwitchResolverReturned
    /\ Get(argvConfig, "remote-allow-origins") = Str(<<"*">>)
    /\ Get(argvConfig, "force-color-profile") = Str(<<"srgb">>)
    /\ ~hasSwitch(commandLine, "remote-allow-origins")
    /\ hasSwitch(commandLine, "force-color-profile")

\* C4: with 'disable-hardware-acceleration': true the resolver calls
\* app.disableHardwareAcceleration() and appends no switch of that name.
HardwareAccelerationDedicated ==
    [][SwitchResolverStep
        /\ Get(argvConfig', "disable-hardware-acceleration") = Bool(TRUE) =>
            /\ hwAccelDisabled' = hwAccelDisabled + 1
            /\ AppendedNamed("disable-hardware-acceleration") = {}
      ]_vars

HardwareAccelerationDedicatedWitness ==
    /\ SwitchResolverReturned
    /\ Get(argvConfig, "disable-hardware-acceleration") = Bool(TRUE)
    /\ hwAccelDisabled = 1
    /\ ~hasSwitch(commandLine, "disable-hardware-acceleration")

\* C5: a legacy 'password-store' value ('gnome', 'gnome-keyring') is never
\* applied literally: where the key is allow-listed (Linux) the one switch
\* appended for it carries 'gnome-libsecret'; any other non-empty string
\* value is applied as it is.
PasswordStoreMigration ==
    [][SwitchResolverStep /\ Get(argvConfig', "password-store").t = "string" =>
        LET value == Get(argvConfig', "password-store").s
            appended == AppendedNamed("password-store")
        IN /\ \A i \in appended :
                 AppendedSwitches[i].value \notin LegacyPasswordStores
           /\ platform = "linux" /\ value \in { <<"gnome">>, <<"gnome-keyring">> } =>
                 /\ Cardinality(appended) = 1
                 /\ \A i \in appended : AppendedSwitches[i].value = <<"gnome-libsecret">>
           /\ platform = "linux" /\ value \notin { <<"gnome">>, <<"gnome-keyring">>,
                                                  <<"true">>, <<>> } =>
                 /\ Cardinality(appended) = 1
                 /\ \A i \in appended : AppendedSwitches[i].value = value
      ]_vars

PasswordStoreMigrationWitness ==
    /\ SwitchResolverReturned
    /\ platform = "linux"
    /\ Get(argvConfig, "password-store") = Str(<<"gnome">>)
    /\ getSwitchValue(commandLine, "password-store") = <<"gnome-libsecret">>

\* the feature names of a comma-separated switch value
Features(value) == { split(value, ",")[i] : i \in 1..Len(split(value, ",")) }
\* the names of a list of features, each as a one-atom text
Names(features) == { <<features[i]>> : i \in 1..Len(features) }

\* C6: once the resolver has run, the 'enable-features' and
\* 'disable-features' switches hold every mandatory feature, and the
\* resolver keeps every feature the switch held before it ran.
MandatoryFeaturesKept ==
    /\ [](pc \notin { "ParsingArgs", "ConfiguringSwitches" } =>
            /\ Names(FeaturesToEnable)
                  \subseteq Features(getSwitchValue(commandLine, "enable-features"))
            /\ Names(FeaturesToDisable)
                  \subseteq Features(getSwitchValue(commandLine, "disable-features")))
    /\ [][SwitchResolverStep =>
            \A name \in { "enable-features", "disable-features" } :
                Features(getSwitchValue(commandLine, name))
                    \subseteq Features(getSwitchValue(commandLine', name))
         ]_vars

\* the user's features and the mandatory ones are in the final value
MandatoryFeaturesKeptWitness ==
    /\ SwitchResolverReturned
    /\ { <<"UserFeature">>, <<"OtherFeature">>, <<"EarlyEstablishGpuChannel">> }
          \subseteq Features(getSwitchValue(commandLine, "enable-features"))

(***************************************************************************)
(* The crash reporter: environments that vary its inputs.                  *)
(***************************************************************************)
CrashDirs ==
    { AbsoluteDir, DottedAbsoluteDir, DriveDir, RelativeDir, DotRelativeDir,
      UpRelativeDir, <<>> }
CrashTails == { <<>>, <<Str(<<"--">>), File>> }
CrashFiles ==
    { MissingFile,
      JsonFile(<<Entry("enable-crash-reporter", Bool(TRUE)),
                 Entry("crash-reporter-id", Str(UuidOf("a")))>>) }

InitCrashDirectories ==
    InitWith({ "linux", "win32" }, { "x64" }, BOOLEAN, { NoCacheProduct },
             { Str(L_zh_HK) }, { <<>> }, CrashFiles,
             { <<Exe, OptV("crash-reporter-directory", d)>> \o tail :
                 d \in CrashDirs, tail \in CrashTails })

CrashIdEntries ==
    { <<>> } \cup { <<Entry("crash-reporter-id", id)>> : id \in ValidIds \cup InvalidIds }
CrashOptInEntries ==
    { <<>>, <<Entry("enable-crash-reporter", Bool(TRUE))>>,
      <<Entry("enable-crash-reporter", Bool(FALSE))>> }
RemoteArgvs ==
    { <<Exe>>,
      <<Exe, Str(<<"--">>), File>>,
      <<Exe, File, Str(<<"--">>), File, Str(<<"--">>)>>,
      <<Exe, Opt("disable-crash-reporter")>> }

InitCrashIds ==
    InitWith({ "linux", "win32", "darwin" }, { "x64", "arm64", "ia32" }, BOOLEAN,
             Products(BOOLEAN, BOOLEAN, { FALSE }),
             { Str(L_zh_HK) }, { <<>> },
             { JsonFile(optIn \o id) : optIn \in CrashOptInEntries,
                                       id \in CrashIdEntries },
             RemoteArgvs)

InitCrash == InitBase \/ InitCrashDirectories \/ InitCrashIds

SpecCrash == InitCrash /\ [][Next]_vars

\* the crash reporter section of the script is behind
CrashReporterDecided ==
    pc \notin { "ParsingArgs", "ConfiguringSwitches", "ConfiguringSandbox",
                "ResolvingPaths", "ConfiguringCrashReporter" }
\* the step that runs the crash reporter section
CrashReporterStep == pc = "ConfiguringCrashReporter" /\ pc' # pc

CrashDirectoryGiven == Truthy(args["crash-reporter-directory"])

\* the given directory is an absolute path: it starts at the root, on
\* Windows possibly behind a drive
AbsolutePathGiven ==
    LET p == args["crash-reporter-directory"].s
    IN \/ Len(p) >= 1 /\ p[1] = "/"
       \/ platform = "win32" /\ Len(p) >= 2 /\ p[1] \in Drives /\ p[2] = "/"

\* C7: with a --crash-reporter-directory that is not absolute the process
\* exits with status 1 in the crash reporter section and the crash
\* reporter is never started.
RelativeCrashDirectoryIsFatal ==
    CrashDirectoryGiven /\ ~AbsolutePathGiven =>
        /\ crashReporter.started = 0
        /\ CrashReporterDecided => pc = "Exited" /\ exitCode = 1

RelativeCrashDirectoryIsFatalWitness ==
    /\ args["crash-reporter-directory"] = Str(RelativeDir)
    /\ pc = "Exited"
    /\ exitCode = 1
    /\ crashReporter.started = 0

\* the product table has an endpoint for this platform and architecture
EndpointInTable ==
    \/ platform = "win32" /\ arch \in { "x64", "arm64" }
    \/ platform = "darwin" /\ (product.universal \/ arch \in { "x64", "arm64" })
    \/ platform = "linux"

\* C8: upload to the remote endpoint is enabled only in a build that is not
\* a development build, with an endpoint resolved from the product table
\* and without a local crash directory.
UploadOnlyWithEndpoint ==
    crashReporter.uploadToServer =>
        /\ ~isDev
        /\ product.appCenter /\ EndpointInTable
        /\ ~CrashDirectoryGiven

\* a text is made of hexadecimal digits only
IsHex(text) ==
    \A i \in 1..Len(text) :
        toLowerCase(text)[i] \in { "0", "1", "2", "3", "4", "5", "6", "7",
                                   "8", "9", "a", "b", "c", "d", "e", "f" }

\* a value has the UUID shape: five groups of 8, 4, 4, 4 and 12 hex digits
HasUuidShape(v) ==
    /\ v.t = "string"
    /\ LET groups == split(v.s, "-")
       IN /\ Len(groups) = 5
          /\ <<Len(groups[1]), Len(groups[2]), Len(groups[3]), Len(groups[4]),
               Len(groups[5])>> = <<8, 4, 4, 4, 12>>
          /\ \A g \in 1..5 : IsHex(groups[g])

StoredCrashId == Get(argvConfig, "crash-reporter-id")

\* C9: with a stored crash id that is absent or lacks the UUID shape the
\* crash reporter gets an empty submission URL and no upload, and the
\* crash reporter section adds nothing to process.argv.
InvalidIdDisablesUpload ==
    /\ [](CrashReporterDecided /\ ~HasUuidShape(StoredCrashId) =>
            crashReporter.submitURL = <<>> /\ ~crashReporter.uploadToServer)
    /\ [][CrashReporterStep /\ ~HasUuidShape(StoredCrashId) => argv' = argv]_vars

InvalidIdDisablesUploadWitness ==
    /\ CrashReporterDecided
    /\ StoredCrashId = Str(<<"n", "o", "t", "-", "a", "-", "u", "u", "i", "d">>)
    /\ product.appCenter
    /\ crashReporter.started = 1
    /\ crashReporter.submitURL = <<>>

\* the case in which the id is handed to child processes
IdPropagated ==
    /\ CrashReporterEnabled
    /\ ~CrashDirectoryGiven
    /\ product.appCenter
    /\ HasUuidShape(StoredCrashId)

\* C10: a propagated id is inserted into process.argv once, as the pair
\* '--crash-reporter-id' <id>, right before the first '--' if there is one
\* and at the end otherwise; the other tokens keep their order.
IdInsertedBeforeMarker ==
    [][CrashReporterStep /\ IdPropagated =>
        \E i \in 1..(Len(argv) + 1) :
            /\ argv' = SubSeq(argv, 1, i - 1)
                          \o <<Str(<<"--", "crash-reporter-id">>), StoredCrashId>>
                          \o SubSeq(argv, i, Len(argv))
            /\ \A j \in 1..(i - 1) : argv[j] # Str(<<"--">>)
            /\ i <= Len(argv) => argv[i] = Str(<<"--">>)
      ]_vars

IdInsertedBeforeMarkerWitness ==
    /\ CrashReporterDecided
    /\ argv = <<Exe, File, Str(<<"--", "crash-reporter-id">>), Str(UuidOf("F")),
                Str(<<"--">>), File, Str(<<"--">>)>>

(***************************************************************************)
(* The crash reporter policy.                                              *)
(***************************************************************************)
\* argv.json opts in and the command line does not opt out
OptedIn ==
    /\ Truthy(Get(argvConfig, "enable-crash-reporter"))
    /\ ~Truthy(args["disable-crash-reporter"])
PolicyHolds == CrashDirectoryGiven \/ OptedIn

\* C11: the crash reporter is started at most once, never before the crash
\* reporter section and never when the policy does not hold; when the
\* policy holds it has been started exactly once from that section on,
\* unless the validation of the given directory ended the process with
\* status 1, in which case it was not started.
CrashCaptureFollowsPolicy ==
    /\ crashReporter.started <= 1
    /\ ~CrashReporterDecided => crashReporter.started = 0
    /\ CrashReporterDecided /\ ~PolicyHolds =>
          crashReporter.started = 0 /\ pc # "Exited"
    /\ CrashReporterDecided /\ PolicyHolds =>
          IF pc = "Exited"
          THEN crashReporter.started = 0 /\ CrashDirectoryGiven /\ exitCode = 1
          ELSE crashReporter.started = 1

CrashCaptureFollowsPolicyWitness ==
    /\ pc = "ApplicationLoaded"
    /\ OptedIn
    /\ ~CrashDirectoryGiven
    /\ crashReporter.started = 1

\* C11 as stated: whenever the policy holds the crash reporter is started
\* exactly once, and it is never started when the policy does not hold.
CrashCaptureStartedWheneverPolicyHolds ==
    /\ crashReporter.started <= 1
    /\ CrashReporterDecided =>
          crashReporter.started = IF PolicyHolds THEN 1 ELSE 0

(***************************************************************************)
(* The order of the bootstrap.                                             *)
(***************************************************************************)
\* the phase a position of the bootstrap belongs to; 0 once the process has
\* exited or the ready handler has failed
Phase(position) ==
    CASE position \in { "ParsingArgs", "ConfiguringSwitches" } -> 1
      [] position \in { "ConfiguringSandbox", "ResolvingPaths",
                        "ConfiguringCrashReporter", "ResolvingEarlyNls" } -> 2
      [] position = "AwaitingRuntimeReady" -> 3
      [] position = "Tracing" -> 4
      [] position \in { "ReadyHandlerRunning", "StartingUp" } -> 5
      [] position = "ApplicationLoaded" -> 6
      [] OTHER -> 0

\* a step stays in its phase, enters the next one, skips tracing, or stops
PhaseStep ==
    LET from == Phase(pc)
        to == Phase(pc')
    IN \/ to = from
       \/ from # 0 /\ to = from + 1
       \/ from = 3 /\ to = 5
       \/ from \in { 2, 5 } /\ to = 0

\* what the script decides for the host runtime
RuntimeDecisions == << commandLine, sandboxEnabled, hwAccelDisabled, userData >>

\* C12: the phases follow one another in the order ParsingArgs,
\* SwitchesConfigured, AwaitingRuntimeReady, optional tracing,
\* ReadyHandlerRunning, ApplicationLoaded and none is entered again; from
\* AwaitingRuntimeReady on the switches, the sandbox decision and the
\* userData path are set and no longer change; the ready handler and the
\* application entry point run only after the ready event.
PhaseOrder ==
    /\ Phase(pc) = 1
    /\ [](Phase(pc) \in 3..6 =>
             /\ userData # <<>>
             /\ sandboxEnabled \/ hasSwitch(commandLine, "no-sandbox"))
    /\ [](onReadyCalls > 0 \/ mainImports > 0 \/ Phase(pc) \in 4..6 =>
             Emitted("ready"))
    /\ [][/\ PhaseStep
          /\ Phase(pc) \notin { 1, 2 } => UNCHANGED RuntimeDecisions]_vars

PhaseOrderWitness ==
    /\ pc = "ApplicationLoaded"
    /\ traceRecording = "started"
    /\ mainImports = 1
    /\ hasSwitch(commandLine, "lang")

(***************************************************************************)
(* The join of the two setup tasks.                                        *)
(***************************************************************************)
EnvironmentPublished == processEnv.published
EntryPointInvoked == mainImports > 0

\* C13: the environment values are published and the application entry
\* point is invoked only when both the creation of the code cache directory
\* and the locale resolution have completed, in either order; the published
\* values are the resolved configuration and the code cache path, and they
\* are published before the entry point is invoked.
PublishedAfterJoin ==
    /\ [](EnvironmentPublished =>
             /\ mkdirTask.state = "done"
             /\ nlsTask.state = "done"
             /\ processEnv.nlsConfig = nlsTask.value
             /\ processEnv.codeCachePath =
                   (IF Truthy(codeCachePath) THEN codeCachePath.s ELSE <<>>))
    /\ [](EntryPointInvoked \/ pc \in { "StartingUp", "ApplicationLoaded" } =>
             EnvironmentPublished)
    /\ [][mainImports' # mainImports => EnvironmentPublished]_vars

PublishedAfterJoinWitness ==
    /\ pc = "ApplicationLoaded"
    /\ EnvironmentPublished
    /\ processEnv.codeCachePath # <<>>
    /\ processEnv.nlsConfig.userLocale = <<"f", "r">>
    /\ EntryPointInvoked

(***************************************************************************)
(* Tracing and the ready handler.                                          *)
(***************************************************************************)
TraceRequested == Truthy(args["trace"])

\* C14: with --trace the ready handler does not start while the start of
\* the trace recording is pending and has started once that has completed,
\* with the recording started or failed; without --trace it starts on the
\* ready event; in both cases it is called exactly once.
ReadyHandlerAfterTracing ==
    /\ onReadyCalls <= 1
    /\ ~Emitted("ready") => onReadyCalls = 0 /\ traceRecording = "none"
    /\ Emitted("ready") /\ ~TraceRequested =>
          onReadyCalls = 1 /\ traceRecording = "none"
    /\ Emitted("ready") /\ TraceRequested =>
          /\ traceRecording # "none"
          /\ traceRecording = "pending" => onReadyCalls = 0
          /\ traceRecording \in { "started", "failed" } => onReadyCalls = 1

ReadyHandlerAfterTracingWitness ==
    /\ TraceRequested
    /\ traceRecording = "failed"
    /\ onReadyCalls = 1
    /\ pc = "ApplicationLoaded"

(***************************************************************************)
(* The early and the late locale resolution.                               *)
(***************************************************************************)
EarlyResolutionStarted == nlsConfigurationPromise.state # "none"
EarlyResult == nlsConfigurationPromise.state = "resolved"

\* C15: when the early resolution was started and produced a configuration,
\* the configuration the ready handler obtains and publishes is that one
\* and app.getLocale() is not called; app.getLocale() is called, once, only
\* in a run without an early resolution.
EarlyResultWins ==
    /\ getLocaleCalls <= 1
    /\ getLocaleCalls > 0 => ~EarlyResolutionStarted
    /\ EarlyResolutionStarted /\ nlsTask.state = "done" =>
          EarlyResult /\ nlsTask.value = nlsConfigurationPromise.value
    /\ EarlyResult /\ NlsConfigurationFinal =>
          processEnv.nlsConfig = nlsConfigurationPromise.value

EarlyResultWinsWitness ==
    /\ EarlyResult
    /\ NlsConfigurationFinal
    /\ HostLocalePresent
    /\ processZhLocale(toLowerCase(hostLocale)) # nlsConfigurationPromise.value.userLocale
    /\ processEnv.nlsConfig.userLocale = nlsConfigurationPromise.userLocale
    /\ getLocaleCalls = 0

(***************************************************************************)
(* Errors in the ready handler.                                            *)
(***************************************************************************)
\* the lines console.error(error) of line 353 has written
ReadyHandlerErrors ==
    { i \in 1..Len(console) :
        console[i] \in { "error: setup failed", "error: bootstrapESM failed",
                         "error: import failed" } }

\* one of the awaited operations of the ready handler has raised
ReadyHandlerRaised ==
    \/ pc = "ReadyHandlerRunning" /\ PromiseAllRejected(mkdirTask, nlsTask)
    \/ pc = "ReadyHandlerFailed"

\* C16: an error of a setup task or of startup is caught by the ready
\* handler: the handler ends with exactly one line written to the error
\* output and the process keeps running; after that the ready handler is
\* not called again, nothing more is reported and the application entry
\* point is not invoked again.
ReadyHandlerFailsOnce ==
    /\ [](/\ onReadyCalls <= 1
          /\ mainImports <= 1
          /\ ReadyHandlerRaised => exitCode = -1
          /\ Cardinality(ReadyHandlerErrors) =
                (IF pc = "ReadyHandlerFailed" THEN 1 ELSE 0))
    /\ [][/\ ReadyHandlerRaised /\ pc' # pc => pc' = "ReadyHandlerFailed"
          /\ pc = "ReadyHandlerFailed" =>
                UNCHANGED << pc, console, onReadyCalls, mainImports, exitCode,
                             processEnv >>]_vars

ReadyHandlerFailsOnceWitness ==
    /\ pc = "ReadyHandlerFailed"
    /\ nlsTask.state = "failed"
    /\ Cardinality(ReadyHandlerErrors) = 1
    /\ mainImports = 0
    /\ exitCode = -1

(***************************************************************************)
(* Progress of the bootstrap.                                              *)
(***************************************************************************)
BootstrapESMFailed ==
    \E i \in 1..Len(console) : console[i] = "error: bootstrapESM failed"

BootstrapEnds ==
    /\ <>(pc \in { "ApplicationLoaded", "Exited", "ReadyHandlerFailed" })
    /\ [](pc = "Exited" => CrashDirectoryGiven /\ exitCode = 1)
    /\ [](pc = "ReadyHandlerFailed" => Cardinality(ReadyHandlerErrors) = 1)

BootstrapEndsWitness ==
    /\ pc = "ReadyHandlerFailed"
    /\ nlsConfigurationPromise.state = "rejected"
    /\ ~EntryPointInvoked
    /\ exitCode = -1

\* C18 as stated: every run ends with the application entry point invoked
\* or with the process exited by the crash reporter directory validation.
BootstrapLoadsOrExits ==
    <>(pc = "ApplicationLoaded" \/ EntryPointInvoked \/ pc = "Exited")

(***************************************************************************)
(* Dropped files and deep links: environments that vary the host events.   *)
(***************************************************************************)
InitHostEvents ==
    InitWithEvents({ "darwin" }, { "x64" }, { FALSE }, { ReleaseProduct },
                   { Str(L_zh_HK) }, { <<>> },
                   { MissingFile, JsonFile(<<Entry("locale", Str(L_Fr))>>) },
                   { <<Exe>>, <<Exe, Opt("trace")>> },
                   QueuesOf(OpenFileEvents \cup OpenUrlEvents, MaxEvents))

InitListeners == InitBase \/ InitHostEvents

SpecListeners == InitListeners /\ [][Next]_vars

\* the positions of the log at which getOpenUrls was called
Reads == { i \in 1..Len(hostLog) : hostLog[i].event = "getOpenUrls" }
FirstReadDone == Len(openUrlsReads) > 0

\* C19: from the first call of getOpenUrls on, onOpenUrl is not registered
\* on open-url and the accumulated list does not change, whatever
\* open-url events the host runtime emits afterwards and however the
\* events and the calls are interleaved.
ListenerRemovedOnFirstRead ==
    /\ [](FirstReadDone <=> Reads # {})
    /\ [](FirstReadDone => openUrlListeners = 0)
    /\ [](FirstReadDone => openUrls = openUrlsReads[1])
    /\ [][FirstReadDone => UNCHANGED << openUrls, openUrlListeners >>]_vars

\* one link arrived before the first call and another one after it
ListenerRemovedOnFirstReadWitness ==
    /\ FirstReadDone
    /\ openUrls = <<"vscode://a">>
    /\ \E i \in Reads : \E j \in (i + 1)..Len(hostLog) :
          hostLog[j] = HostEvent("open-url", "vscode://b")

(***************************************************************************)
(* The reader of argv.json.                                                *)
(***************************************************************************)
ReadFailed(file) == file.state # "present" \/ file.kind = "garbage"
FileNotFound(file) == file.state = "missing"
Logged(line) == \E i \in 1..Len(console) : console[i] = line

\* C20: the step that reads argv.json always completes and the script goes
\* on: the config is that of the file, or empty when the file is missing,
\* unreadable or does not parse; the file is written only when it was
\* missing, and then either left missing or given the default text.
ReaderNeverRaises ==
    /\ [](pc = "ConfiguringSwitches" => ENABLED ConfigureCommandlineSwitchesSync)
    /\ [][pc = "ConfiguringSwitches" /\ pc' # pc =>
            /\ pc' = "ConfiguringSandbox"
            /\ exitCode' = -1
            /\ argvConfig' = (IF ReadFailed(argvFile) THEN <<>>
                              ELSE argvFile.entries)
            /\ ~FileNotFound(argvFile) => argvFile' = argvFile
            /\ FileNotFound(argvFile) =>
                  argvFile' \in { argvFile, DefaultArgvConfigFile }]_vars

ReaderNeverRaisesWitness ==
    /\ pc = "ConfiguringSandbox"
    /\ argvFile = UnreadableFile
    /\ argvConfig = <<>>
    /\ Logged("warn: unable to read argv.json")

(***************************************************************************)
(* The reader called again on the file it left.                            *)
(***************************************************************************)
CommentedFile ==
    JsonFile(<<Comment("my settings"), Entry("locale", Str(L_Fr)),
               Comment("\"disable-lcd-text\": true")>>)

InitReader ==
    \/ InitBase
    \/ InitWith({ "linux", "darwin" }, { "x64" }, { FALSE }, { ReleaseProduct },
                { Str(L_zh_HK) }, { <<>> },
                BaseFiles \cup { DefaultArgvConfigFile, CommentedFile },
                { <<Exe>> })

SpecReader == InitReader /\ [][Next]_vars

ReaderReturned == pc \notin { "ParsingArgs", "ConfiguringSwitches" }

\* C21: once the reader has returned and left a file in place, a second call
\* of the reader writes nothing (the file after it is the file before it) and
\* returns the configuration the first call returned; the default file
\* written for a missing file parses to the empty configuration.
ReaderIdempotent ==
    (ReaderReturned /\ argvFile.state # "missing") =>
        \A canWrite \in BOOLEAN :
            LET second == readArgvConfigSync(argvFile, canWrite)
            IN /\ second.file = argvFile
               /\ second.config = argvConfig

ReaderIdempotentWitness ==
    /\ pc = "ConfiguringSandbox"
    /\ argvFile = DefaultArgvConfigFile
    /\ argvConfig = <<>>

(***************************************************************************)
(* The runtime switches the key loop appends.                              *)
(***************************************************************************)
\* the runtime-switch keys that have no dedicated call
RuntimeSwitchKeys ==
    SUPPORTED_ELECTRON_SWITCHES(platform) \ { "disable-hardware-acceleration" }

\* the values of the switches named key that the resolver appended in this
\* step, in order; the empty text is a switch without a value
AppendedValues(key) ==
    LET named == SelectSeq(AppendedSwitches, LAMBDA sw : sw.name = key)
    IN [i \in 1..Len(named) |-> named[i].value]

NonEmptyString(value) == value.t = "string" /\ value.s # <<>>

\* C22 as stated: for a runtime-switch key other than
\* 'disable-hardware-acceleration', the value true appends the bare switch,
\* every non-empty string appends the switch with that string as its value,
\* and any other value appends nothing.
RuntimeSwitchAsStated ==
    [][SwitchResolverStep =>
        \A key \in RuntimeSwitchKeys :
            LET value == Get(argvConfig', key)
            IN AppendedValues(key) =
                  (IF value = Bool(TRUE) THEN << <<>> >>
                   ELSE IF NonEmptyString(value) THEN << value.s >>
                   ELSE <<>>)
      ]_vars

\* C22: for a runtime-switch key other than 'disable-hardware-acceleration',
\* the value true and the string 'true' append the bare switch, every other
\* non-empty string appends the switch with that string as its value (for
\* 'password-store' the legacy names as 'gnome-libsecret'), and any other
\* value appends nothing.
RuntimeSwitchValues ==
    [][SwitchResolverStep =>
        \A key \in RuntimeSwitchKeys :
            LET value == Get(argvConfig', key)
            IN AppendedValues(key) =
                  (IF value = Bool(TRUE) \/ value = Str(<<"true">>)
                   THEN << <<>> >>
                   ELSE IF NonEmptyString(value)
                   THEN IF key = "password-store"
                           /\ value.s \in { <<"gnome">>, <<"gnome-keyring">> }
                        THEN << <<"gnome-libsecret">> >>
                        ELSE << value.s >>
                   ELSE <<>>)
      ]_vars

RuntimeSwitchValuesWitness ==
    /\ SwitchResolverReturned
    /\ Get(argvConfig, "force-color-profile") = Str(<<"true">>)
    /\ Get(argvConfig, "disable-lcd-text") = Bool(FALSE)
    /\ hasSwitch(commandLine, "force-color-profile")
    /\ getSwitchValue(commandLine, "force-color-profile") = <<>>
    /\ ~hasSwitch(commandLine, "disable-lcd-text")

(***************************************************************************)
(* The tokens the key loop pushes onto process.argv.                       *)
(***************************************************************************)
\* the tokens the resolver added to process.argv in this step
PushedTokens == SubSeq(argv', Len(argv) + 1, Len(argv'))

ProposedApiFlag == Str(<<"--", "enable-proposed-api">>)

\* the tokens that follow each '--enable-proposed-api' token, in order
RECURSIVE IdsAfterFlag(_)
IdsAfterFlag(tokens) ==
    IF Len(tokens) < 2 THEN <<>>
    ELSE IF tokens[1] = ProposedApiFlag
    THEN <<tokens[2]>> \o IdsAfterFlag(Tail(Tail(tokens)))
    ELSE IdsAfterFlag(Tail(tokens))

\* C23: with an array under 'enable-proposed-api' the resolver leaves the
\* tokens process.argv held in place and adds, in the order of the array,
\* one pair '--enable-proposed-api' <id> for each element that is a
\* non-empty string, and no such pair for any other element.
ProposedApiPairs ==
    [][SwitchResolverStep /\ Get(argvConfig', "enable-proposed-api").t = "array" =>
        LET ids == SelectSeq(Get(argvConfig', "enable-proposed-api").a,
                             LAMBDA id : NonEmptyString(id))
            flags == { i \in 1..Len(PushedTokens) : PushedTokens[i] = ProposedApiFlag }
        IN /\ Len(argv') >= Len(argv)
           /\ SubSeq(argv', 1, Len(argv)) = argv
           /\ IdsAfterFlag(PushedTokens) = ids
           /\ Cardinality(flags) = Len(ids)
           /\ ConfigKeys(argvConfig') = { "enable-proposed-api" } =>
                 Len(PushedTokens) = 2 * Len(ids)
      ]_vars

ProposedApiPairsWitness ==
    /\ SwitchResolverReturned
    /\ Get(argvConfig, "enable-proposed-api") = ProposedApiIds
    /\ Len(argv) >= 5
    /\ SubSeq(argv, Len(argv) - 3, Len(argv)) =
           << ProposedApiFlag, Str(<<"ext.a">>), ProposedApiFlag, Str(<<"ext.b">>) >>

(***************************************************************************)
(* Malformed entries of the application switches.                          *)
(***************************************************************************)
\* the entry cannot be applied as it stands: the list of proposed-API ids is
\* not an array or holds an element that is not a non-empty string, or the
\* log level is neither a string nor an array
Malformed(entry) ==
    \/ /\ entry.key = "enable-proposed-api"
       /\ \/ entry.value.t # "array"
          \/ \E i \in 1..Len(entry.value.a) : ~NonEmptyString(entry.value.a[i])
    \/ /\ entry.key = "log-level"
       /\ entry.value.t \notin { "string", "array" }

MalformedEntries(config) == { i \in 1..Len(config) : Malformed(config[i]) }

\* the lines the resolver wrote to the console in this step
LoggedLines == SubSeq(console', Len(console) + 1, Len(console'))

\* C24: the resolver returns whatever argv.json holds, and for every
\* malformed entry of an application switch it has logged a diagnostic.
MalformedEntriesLogged ==
    [][SwitchResolverStep =>
        /\ exitCode' = -1
        /\ Len(LoggedLines) >= Cardinality(MalformedEntries(argvConfig'))
      ]_vars

(***************************************************************************)
(* The 'lang' switch of the host runtime.                                  *)
(***************************************************************************)
L_QPS_Ploc == <<"Q", "P", "S", "-", "p", "l", "o", "c">>

InitLang ==
    \/ InitBase
    \/ InitWith({ "win32", "linux", "darwin" }, { "x64" }, { FALSE },
                { NoCacheProduct }, { Str(L_zh_HK) }, { <<>>, L_it },
                { MissingFile, JsonFile(<<Entry("locale", Str(L_qps_ploc))>>),
                  JsonFile(<<Entry("locale", Str(<<>>))>>),
                  JsonFile(<<Entry("locale", Str(L_Fr))>>) },
                { <<Exe>>, <<Exe, OptV("locale", L_qps_ploc)>>,
                  <<Exe, OptV("locale", L_QPS_Ploc)>>,
                  <<Exe, OptV("locale", L_DE)>> })

SpecLang == InitLang /\ [][Next]_vars

PseudoLocale == <<"q", "p", "s", "-", "p", "l", "o", "c">>
English == <<"e", "n">>

\* the switches named 'lang' on the host runtime's command line
LangSwitches == SelectSeq(commandLine, LAMBDA sw : sw.name = "lang")

\* C25: once the script has run, on Windows and Linux the host runtime
\* holds one 'lang' switch: 'en' when the user locale is 'qps-ploc' or there
\* is none, the user locale otherwise; on other platforms it holds none.
\* With the user locale 'qps-ploc' the early language resolution is given
\* 'qps-ploc'.
LangSwitchForwarded ==
    EventLoopRunning =>
        /\ IF platform \in { "win32", "linux" }
           THEN /\ Len(LangSwitches) = 1
                /\ LangSwitches[1].value =
                      (IF ~Truthy(userLocale) THEN English
                       ELSE IF userLocale.s = PseudoLocale THEN English
                       ELSE userLocale.s)
           ELSE Len(LangSwitches) = 0
        /\ (Truthy(userLocale) /\ userLocale.s = PseudoLocale) =>
              /\ nlsConfigurationPromise # NoPromise
              /\ nlsConfigurationPromise.userLocale = PseudoLocale

LangSwitchForwardedWitness ==
    /\ EventLoopRunning
    /\ platform = "win32"
    /\ args["locale"] = Str(L_QPS_Ploc)
    /\ userLocale = Str(PseudoLocale)
    /\ getSwitchValue(commandLine, "lang") = English
    /\ nlsConfigurationPromise.userLocale = PseudoLocale

(***************************************************************************)
(* The local crash directory.                                              *)
(***************************************************************************)
\* the crash reporter section ran to its end in this step
CrashReporterConfigured == CrashReporterStep /\ pc' # "Exited"

CreationFailed == Logged("error: --crash-reporter-directory cannot be created")

\* C27: when the crash directory is missing and cannot be created the
\* process exits with status 1 in that step: the crash dumps are not
\* redirected, the crash reporter is not started and no step follows.
UncreatableCrashDirectoryIsFatal ==
    /\ [](CreationFailed =>
            /\ pc = "Exited"
            /\ exitCode = 1
            /\ crashDumps = <<>>
            /\ crashReporter.started = 0
            /\ nlsConfigurationPromise = NoPromise
            /\ onReadyCalls = 0)
    /\ [][pc # "Exited"]_vars

UncreatableCrashDirectoryIsFatalWitness ==
    /\ CreationFailed
    /\ pc = "Exited"
    /\ args["crash-reporter-directory"] = Str(AbsoluteDir)
    /\ exitCode = 1

(***************************************************************************)
(* The language resolution of the ready handler without an early result.   *)
(***************************************************************************)
\* the ready handler starts in this step
ReadyHandlerStarts == pc # "ReadyHandlerRunning" /\ pc' = "ReadyHandlerRunning"

NoEarlyResolution == nlsConfigurationPromise = NoPromise

\* the resolver of language packs is at work for the ready handler, or was
LateResolverCalled == nlsTask.state = "resolving" \/ nlsTask.userLocale # <<>>

\* C28: when the ready handler resolves the language without an early
\* resolution, a host runtime that reports no locale gives the English
\* configuration carrying the detected OS locale, without a call of the
\* language-pack resolver; a reported locale is handed to the resolver
\* lower-cased and with Chinese locales normalized.
LateResolution ==
    /\ [][(ReadyHandlerStarts /\ NoEarlyResolution) =>
            IF hostLocale = <<>>
            THEN /\ nlsTask'.state = "done"
                 /\ nlsTask'.value =
                       [userLocale |-> English, osLocale |-> osLocale,
                        resolvedLanguage |-> English]
            ELSE /\ nlsTask'.state = "resolving"
                 /\ nlsTask'.userLocale = ZhCanonical(toLowerCase(hostLocale))
         ]_vars
    /\ []((NoEarlyResolution /\ hostLocale = <<>>) =>
            /\ ~LateResolverCalled
            /\ NlsConfigurationFinal =>
                  nlsConfig = [userLocale |-> English,
                               osLocale |-> ZhCanonical(toLowerCase(PreferredLanguage)),
                               resolvedLanguage |-> English])

LateResolutionWitness ==
    /\ NlsConfigurationFinal
    /\ NoEarlyResolution
    /\ hostLocale = <<>>
    /\ hostLanguage = Str(L_zh_HK)
    /\ nlsConfig.osLocale = L_zh_tw
    /\ nlsConfig.userLocale = English

(***************************************************************************)
(* The boolean application switches.                                       *)
(***************************************************************************)
BooleanApplicationSwitches ==
    { "use-inmemory-secretstorage", "enable-rdp-display-tracking" }

\* how many of the tokens the resolver pushed in this step are the bare flag
PushedFlags(key) ==
    Cardinality({ i \in 1..Len(PushedTokens) : PushedTokens[i] = Str(<<"--", key>>) })

\* C29: for 'use-inmemory-secretstorage' and 'enable-rdp-display-tracking'
\* the resolver pushes the bare flag onto process.argv once when the value
\* is the boolean true, and not at all for any other value.
BooleanFlagOnlyForTrue ==
    [][SwitchResolverStep =>
        \A key \in BooleanApplicationSwitches :
            PushedFlags(key) = (IF Get(argvConfig', key) = Bool(TRUE) THEN 1 ELSE 0)
      ]_vars

(***************************************************************************)
(* The sandbox.                                                            *)
(***************************************************************************)
SandboxArgvs ==
    { <<Exe>>,
      <<Exe, Opt("sandbox")>>,
      <<Exe, OptV("sandbox", <<"false">>)>>,
      <<Exe, Opt("no-sandbox")>>,
      <<Exe, Opt("no-sandbox"), Opt("sandbox")>>,
      <<Exe, Opt("disable-gpu-sandbox")>>,
      <<Exe, Opt("no-sandbox"), Opt("disable-gpu-sandbox")>>,
      <<Exe, Opt("disable-chromium-sandbox")>>,
      <<Exe, OptV("disable-chromium-sandbox", <<"false">>)>>,
      <<Exe, Opt("disable-chromium-sandbox"), Opt("disable-gpu-sandbox")>>,
      <<Exe, Opt("disable-chromium-sandbox"), Opt("no-sandbox")>>,
      <<Exe, Str(<<"--">>), Opt("no-sandbox")>> }

SandboxFiles ==
    { MissingFile,
      JsonFile(<<Entry("disable-chromium-sandbox", Bool(TRUE))>>),
      JsonFile(<<Entry("disable-chromium-sandbox", Bool(FALSE))>>),
      JsonFile(<<Entry("disable-chromium-sandbox", Str(<<"false">>))>>) }

InitSandbox ==
    \/ InitBase
    \/ InitWith({ "linux", "win32", "darwin" }, { "x64" }, { FALSE },
                { NoCacheProduct }, { Str(L_zh_HK) }, { <<>> },
                SandboxFiles, SandboxArgvs)

SpecSandbox == InitSandbox /\ [][Next]_vars

\* the sandbox section of the script is behind
SandboxConfigured ==
    pc \notin { "ParsingArgs", "ConfiguringSwitches", "ConfiguringSandbox" }

\* neither the command line nor argv.json asks to disable the sandbox
NoDisableSource ==
    /\ ~Truthy(args["disable-chromium-sandbox"])
    /\ ~Truthy(Get(argvConfig, "disable-chromium-sandbox"))

BothSandboxesOff ==
    /\ \E i \in 1..Len(commandLine) : commandLine[i].name = "no-sandbox"
    /\ \E i \in 1..Len(commandLine) : commandLine[i].name = "disable-gpu-sandbox"

FromMarker(av) ==
    IF indexOf(av, Str(<<"--">>)) = 0 THEN <<>>
    ELSE SubSeq(av, indexOf(av, Str(<<"--">>)), Len(av))

\* C31: when process.argv holds a '--' marker, every token a step of the
\* bootstrap adds is placed before the first marker: the list from the
\* marker on is the same after the step as before it.
InjectedBeforeMarker ==
    [][FromMarker(argv) # <<>> => FromMarker(argv') = FromMarker(argv)]_vars

(***************************************************************************)
(* What the two lists accumulate.                                          *)
(***************************************************************************)
\* the arguments of the events named event at the positions i..last of the
\* log, in the order of the log
RECURSIVE Delivered(_, _, _, _)
Delivered(log, event, i, last) ==
    IF i > last THEN <<>>
    ELSE (IF log[i].event = event THEN <<log[i].arg>> ELSE <<>>)
         \o Delivered(log, event, i + 1, last)

\* the position at which the host runtime emitted will-finish-launching and
\* the position of the first call of getOpenUrls, past the log when absent
InstalledAt ==
    IF Emitted("will-finish-launching")
    THEN CHOOSE i \in 1..Len(hostLog) : hostLog[i].event = "will-finish-launching"
    ELSE Len(hostLog) + 1
FirstReadAt ==
    IF Reads = {} THEN Len(hostLog) + 1
    ELSE CHOOSE i \in Reads : \A j \in Reads : i <= j

\* the links delivered after the listener was installed and before the
\* first read
LinksBeforeFirstRead == Delivered(hostLog, "open-url", InstalledAt + 1, FirstReadAt - 1)

\* C32: the list getOpenUrls returns at its first call holds every link
\* delivered after the open-url listener was installed and before that
\* call, once each and in the order of delivery; macOpenFiles holds every
\* file delivered since registerListeners, in the order of delivery.
DeliveriesAccumulated ==
    EventLoopRunning =>
        /\ openUrls = LinksBeforeFirstRead
        /\ FirstReadDone => openUrlsReads[1] = LinksBeforeFirstRead
        /\ macOpenFiles = Delivered(hostLog, "open-file", 1, Len(hostLog))

DeliveriesAccumulatedWitness ==
    /\ FirstReadDone
    /\ openUrlsReads[1] = <<"vscode://b", "vscode://a">>
    /\ hostLog[1].event = "will-finish-launching"

(***************************************************************************)
(* The form of the locales handed to the language-pack resolver.           *)
(***************************************************************************)
CapitalLetters ==
    { "A", "B", "C", "D", "E", "F", "G", "H", "I", "J", "K", "L", "M",
      "N", "O", "P", "Q", "R", "S", "T", "U", "V", "W", "X", "Y", "Z" }

LowerCased(l) == \A i \in 1..Len(l) : l[i] \notin CapitalLetters

\* lower-case, and a locale that begins with zh is zh-cn or zh-tw
NormalizedLocale(l) ==
    /\ LowerCased(l)
    /\ BeginsWithZh(l) =>
          l \in { <<"z", "h", "-", "c", "n">>, <<"z", "h", "-", "t", "w">> }

\* the early resolution was started: the resolver was called before ready
EarlyResolverCalled == nlsConfigurationPromise # NoPromise

\* C33 as stated: every locale handed to the language-pack resolver as
\* userLocale or osLocale, by the early and by the late resolution, is
\* lower-case and, if it begins with zh, is zh-cn or zh-tw.
ResolverLocalesNormalized ==
    /\ EarlyResolverCalled =>
          /\ NormalizedLocale(nlsConfigurationPromise.userLocale)
          /\ NormalizedLocale(nlsConfigurationPromise.osLocale)
    /\ LateResolverCalled =>
          /\ NormalizedLocale(nlsTask.userLocale)
          /\ NormalizedLocale(osLocale)

\* C33: every locale handed to the language-pack resolver is lower-case;
\* the osLocale of both resolutions and the userLocale of the late
\* resolution are zh-cn or zh-tw if they begin with zh, while the
\* userLocale of the early resolution is the user-defined locale
\* lower-cased and nothing more.
ResolverLocalesLowerCased ==
    /\ EarlyResolverCalled =>
          /\ LowerCased(nlsConfigurationPromise.userLocale)
          /\ nlsConfigurationPromise.userLocale = userLocale.s
          /\ NormalizedLocale(nlsConfigurationPromise.osLocale)
    /\ LateResolverCalled =>
          /\ NormalizedLocale(nlsTask.userLocale)
          /\ NormalizedLocale(osLocale)

ResolverLocalesLowerCasedWitness ==
    /\ EarlyResolverCalled
    /\ args["locale"] = Str(<<"Z", "H", "-", "H", "a", "n", "t">>)
    /\ nlsConfigurationPromise.userLocale = <<"z", "h", "-", "h", "a", "n", "t">>
    /\ nlsConfigurationPromise.osLocale = <<"z", "h", "-", "t", "w">>

====
